---- MODULE Spec2Model ----
(***************************************************************************)
(* A model of the HTTP server of src/server/source/index.mts: the request  *)
(* listener (context building, pre-router endpoints, live-connection       *)
(* negotiation, the dispatch loop over the routes, the candidate           *)
(* connection), the response 'close' listeners and the timers.             *)
(*                                                                         *)
(* The request listener is an async function: it runs without interruption *)
(* from one `await` to the next.  Every action below is one such run, or   *)
(* one event of the event loop (a socket close, a timer).  The heap the    *)
(* code mutates is passed through the operators as a record `h`, so that   *)
(* the code between two awaits composes into one atomic step.              *)
(***************************************************************************)
EXTENDS Integers, Sequences, FiniteSets

VARIABLES
  request,          \* request objects (index = arrival order)
  response,         \* response objects (response r belongs to request r)
  liveConnection,   \* LiveConnection objects (object c is created by request c)
  liveConnections,  \* the registry: a Set, kept in insertion order
  timeouts,         \* pending deleteTimeout timers (handle = the request that armed it)
  tmpdir,           \* the directories under os.tmpdir(): <<request, file>>
  routes,           \* the application's routes
  csrfProtectionExceptionPathname,
  gracefulTerminationEmitted,  \* the process got its first termination signal
  process,          \* the process's signals, events and event listeners
  database,         \* a Database of src/sqlite and the call of migrate() on it
  trace             \* history of what was observed, per request

vars == <<request, response, liveConnection, liveConnections, timeouts, tmpdir, routes,
          csrfProtectionExceptionPathname, gracefulTerminationEmitted, process,
          database, trace>>

----------------------------------------------------------------------------
(* Bounds *)
MaxRequests == 3
MaxRoutes == 3
DispatchRequests == 1
CloseRequests == 2
NumClientIds == 1
MaxFields == 2                           \* limits.fields, scaled down
MaxFiles == 1                            \* limits.files, scaled down
MaxLen == 2                              \* length of a cookie's key and value
CookieRequests == 2                      \* requests of the cookie specification
MaxCookies == 1                          \* calls of setCookie in a behaviour
MaxSignals == 3                          \* termination signals in a behaviour
MaxMigrations == 3                       \* migrations in the longest list
MaxCalls == 3                            \* calls of migrate() in a behaviour

Requests == 1..MaxRequests

(* Values *)
None == 0
MalformedId == -1                        \* a header not matching /^[a-z0-9]{5,}$/
ClientIds == {100 + k : k \in 1..NumClientIds}   \* well-formed ids chosen by a client
Methods == {"GET", "POST"}
Wildcard == "*"                          \* route.method / route.pathname undefined
Errors == {"E1", "E2"}                   \* values a handler throws
TypeError == "TypeError"                 \* Cannot read properties of undefined
RegExp == "RegExp"                       \* route.pathname instanceof RegExp
NoError == "undefined"

CsrfMessage == "CSRF protection failed"
ParseMessage == "Malformed request"
FieldTooLarge == "Field too large."
FileNameTooLarge == "File name too large."
FileTooLarge == "File too large."
TooManyFields == "Too many fields."
TooManyFiles == "Too many files."
WriteFailed == "ENOENT"
InvalidPathname == "Invalid pathname."
Loopback == "127.0.0.1"
Pathname == <<"pathname">>               \* the name of the field `pathname`
LiveConnectionMessage == "Invalid Live-Connection"
DiagnosticMessage == "The application didn't finish handling this request."
HandlerBody == "handler body"

randomString(r) == r                     \* fresh for every request

----------------------------------------------------------------------------
(* Objects as they are before the request arrives *)
NewRequest ==
  [pc |-> "new", method |-> "GET", url |-> "/a", ip |-> "127.0.0.1",
   liveConnectionHeader |-> None, csrfProtection |-> "absent",
   contentType |-> FALSE, urlOk |-> TRUE, cookie |-> <<>>, cookieOk |-> TRUE,
   cookies |-> <<>>, URL |-> [pathname |-> <<>>, search |-> <<>>],
   search |-> <<>>, pathname |-> <<>>, state |-> {},
   id |-> None, liveConnection |-> None, error |-> NoError, route |-> 0,
   update |-> FALSE, closeListener |-> FALSE, backgroundJobs |-> FALSE,
   body |-> <<>>, parsing |-> FALSE, bodyError |-> NoError, fields |-> 0,
   files |-> <<>>, directoriesToDelete |-> {}, directoriesListener |-> FALSE,
   adminListener |-> FALSE, adminRunning |-> FALSE, adminVisited |-> {}]

NewResponse ==
  [statusCode |-> 200, contentType |-> "", headersSent |-> FALSE,
   writableEnded |-> FALSE, closed |-> FALSE, liveConnectionEnd |-> FALSE,
   body |-> "", setCookie |-> <<>>, afters |-> None]

NoLiveConnection ==
  [request |-> None, establish |-> FALSE, skipUpdateOnEstablish |-> FALSE,
   writableEnded |-> FALSE, update |-> None, deleteTimeout |-> None]

NewTrace ==
  [invoked |-> <<>>, thrown |-> FALSE, handlerEnded |-> FALSE,
   handlerWrote |-> FALSE, dispatched |-> FALSE, everInvoked |-> FALSE,
   replaced |-> None, replacedOpen |-> FALSE, created |-> FALSE,
   rejected |-> FALSE, fallback |-> FALSE, failed |-> FALSE,
   endpoint |-> FALSE, received |-> <<>>, fieldsLimit |-> FALSE,
   filesLimit |-> FALSE, setCookie |-> <<>>, writeAfterEnd |-> FALSE,
   outputAfterEnded |-> FALSE, pushedAfter |-> FALSE, aftersRun |-> 0,
   everThrown |-> FALSE, statusSent |-> None, closedBeforeWrite |-> FALSE]

Heap ==
  [request |-> request, response |-> response, liveConnection |-> liveConnection,
   liveConnections |-> liveConnections, timeouts |-> timeouts,
   tmpdir |-> tmpdir, trace |-> trace]

CommitHeap(h) ==
  /\ request' = h.request
  /\ response' = h.response
  /\ liveConnection' = h.liveConnection
  /\ liveConnections' = h.liveConnections
  /\ timeouts' = h.timeouts
  /\ tmpdir' = h.tmpdir
  /\ trace' = h.trace

Commit(h) ==
  /\ CommitHeap(h)
  /\ UNCHANGED <<routes, csrfProtectionExceptionPathname,
                 gracefulTerminationEmitted, process, database>>

SetRequest(h, r, fields) ==
  [h EXCEPT !.request[r] = [f \in DOMAIN @ |->
      IF f \in DOMAIN fields THEN fields[f] ELSE @[f]]]

SetResponse(h, r, fields) ==
  [h EXCEPT !.response[r] = [f \in DOMAIN @ |->
      IF f \in DOMAIN fields THEN fields[f] ELSE @[f]]]

SetLiveConnection(h, c, fields) ==
  [h EXCEPT !.liveConnection[c] = [f \in DOMAIN @ |->
      IF f \in DOMAIN fields THEN fields[f] ELSE @[f]]]

SetTrace(h, r, fields) ==
  [h EXCEPT !.trace[r] = [f \in DOMAIN @ |->
      IF f \in DOMAIN fields THEN fields[f] ELSE @[f]]]

----------------------------------------------------------------------------
(* http.ServerResponse *)

\* the status line goes out with the first write or with the end, carrying
\* the statusCode the response has at that moment; the history records it
WriteHead(h, r) ==
  IF h.response[r].headersSent THEN h
  ELSE SetTrace(h, r, [statusSent |-> h.response[r].statusCode])

\* response.write(chunk): sends the headers; after the end node refuses the
\* chunk (ERR_STREAM_WRITE_AFTER_END), which the history records
Write(h, r, data) ==
  IF h.response[r].writableEnded THEN SetTrace(h, r, [writeAfterEnd |-> TRUE])
  ELSE SetResponse(WriteHead(h, r), r, [headersSent |-> TRUE,
         body |-> IF data = "" THEN h.response[r].body ELSE data])

\* the original response.end(data) of node
RealEnd(h, r, data) ==
  IF h.response[r].writableEnded THEN h
  ELSE SetResponse(WriteHead(h, r), r, [headersSent |-> TRUE, writableEnded |-> TRUE,
         body |-> IF data = "" THEN h.response[r].body ELSE data])

\* JSON.stringify of a string without characters to escape
JSONStringify(data) == "\"" \o data \o "\""

\* a replaced response.end that ends the stream as the original does
LiveConnectionResponseEndEndingStream(h, r, data) ==
  LET marked == SetLiveConnection(h, h.request[r].liveConnection,
                                  [writableEnded |-> TRUE])
  IN  RealEnd(marked, r, IF data = "" THEN "" ELSE JSONStringify(data) \o "\n")

\* response.end as replaced for a live connection; the history records the
\* line of a call that comes after a handler ended the pass already
LiveConnectionResponseEnd(h, r, data) ==
  LET marked == SetLiveConnection(h, h.request[r].liveConnection,
                                  [writableEnded |-> TRUE])
      again == h.trace[r].handlerEnded /\ ~h.response[r].writableEnded
  IN  IF data = "" THEN marked
      ELSE Write(IF again THEN SetTrace(marked, r, [outputAfterEnded |-> TRUE])
                 ELSE marked, r, JSONStringify(data) \o "\n")

\* response.end(data) as the handlers and the dispatcher call it
End(h, r, data) ==
  IF h.response[r].liveConnectionEnd
  THEN LiveConnectionResponseEnd(h, r, data)
  ELSE RealEnd(h, r, data)

\* response.liveConnectionEnd?.()
LiveConnectionEnd(h, r) ==
  IF h.response[r].liveConnectionEnd THEN RealEnd(h, r, "") ELSE h

\* (request.liveConnection ?? response).writableEnded
WritableEnded(h, r) ==
  IF h.request[r].liveConnection # None
  THEN h.liveConnection[h.request[r].liveConnection].writableEnded
  ELSE h.response[r].writableEnded

----------------------------------------------------------------------------
(* The dispatch loop *)

\* a regular expression /^literal(?<group>[class]+)$/ against the characters
\* of a pathname: match(...) !== null
Match(pattern, pathname) ==
  /\ Len(pathname) > Len(pattern.literal)
  /\ SubSeq(pathname, 1, Len(pattern.literal)) = pattern.literal
  /\ \A i \in (Len(pattern.literal) + 1)..Len(pathname) : pathname[i] \in pattern.class

\* match.groups
Groups(pattern, pathname) ==
  [group \in {pattern.group} |->
     SubSeq(pathname, Len(pattern.literal) + 1, Len(pathname))]

\* the pathname test of the route loop: a string, a regular expression, or
\* undefined
PathnameApplies(h, r, j) ==
  \/ routes[j].pathname \in {Wildcard, h.request[r].url}
  \/ /\ routes[j].pathname = RegExp
     /\ Match(routes[j].pattern, h.request[r].URL.pathname)

\* a route loop that forgets the groups of the match
NoPathnameParameters(h, r, j) == <<>>

\* request.pathname as the route loop sets it before the handler of route j
PathnameParameters(h, r, j) ==
  IF routes[j].pathname = RegExp
  THEN Groups(routes[j].pattern, h.request[r].URL.pathname)
  ELSE <<>>

\* a route filter that forgets the error flag
RouteAppliesAnyPhase(h, r, j) ==
  /\ routes[j].method \in {Wildcard, h.request[r].method}
  /\ PathnameApplies(h, r, j)

\* the three `continue`s of the route loop
RouteApplies(h, r, j) ==
  /\ (h.request[r].error # NoError) = routes[j].error
  /\ routes[j].method \in {Wildcard, h.request[r].method}
  /\ PathnameApplies(h, r, j)

\* the first route at or after position i that is not skipped; None when the
\* loop runs off the end of the array
NextRoute(h, r, i) ==
  LET candidates == {j \in i..Len(routes) : RouteApplies(h, r, j)}
  IN  IF candidates = {} THEN None
      ELSE CHOOSE j \in candidates : \A k \in candidates : j <= k

\* a registration of candidates that does not look at the method
PrepareAnyMethod(h, r) ==
  LET done == SetRequest(h, r, [pc |-> "done"])
  IN  IF /\ h.response[r].statusCode = 200
         /\ h.response[r].contentType = "text/html"
      THEN [SetLiveConnection(done, r,
              [request |-> r, skipUpdateOnEstablish |-> TRUE,
               deleteTimeout |-> r])
            EXCEPT !.timeouts = @ \cup {r},
                   !.liveConnections = Append(@, r)]
      ELSE done

\* LIVE CONNECTION PREPARE: the candidate connection of a plain request
Prepare(h, r) ==
  LET done == SetRequest(h, r, [pc |-> "done"])
  IN  IF /\ h.request[r].method = "GET"
         /\ h.response[r].statusCode = 200
         /\ h.response[r].contentType = "text/html"
      THEN [SetLiveConnection(done, r,
              [request |-> r, skipUpdateOnEstablish |-> TRUE,
               deleteTimeout |-> r])
            EXCEPT !.timeouts = @ \cup {r},
                   !.liveConnections = Append(@, r)]
      ELSE done

\* a fallback that sets the status whether or not the headers are sent
FallbackAlways500(h, r) ==
  IF WritableEnded(h, r) THEN h
  ELSE End(SetResponse(SetTrace(h, r, [fallback |-> TRUE]), r,
                       [statusCode |-> 500, contentType |-> "text/plain"]),
           r, DiagnosticMessage)

\* "The application didn't finish handling this request."
Fallback(h, r) ==
  IF WritableEnded(h, r) THEN h
  ELSE LET logged == SetTrace(h, r, [fallback |-> TRUE])
       IN  End(IF h.response[r].headersSent THEN logged
               ELSE SetResponse(logged, r, [statusCode |-> 500,
                                            contentType |-> "text/plain"]),
               r, DiagnosticMessage)

RECURSIVE PassStart(_, _)

\* after the route loop: the fallback, then the wait for the next update
PassEnd(h, r) ==
  LET ended == Fallback(h, r)
      c == h.request[r].liveConnection
  IN  IF c = None THEN Prepare(ended, r)
      ELSE LET waiting == SetLiveConnection(ended, c,
                            [establish |-> FALSE, skipUpdateOnEstablish |-> TRUE])
           IN  IF waiting.request[r].update
               THEN PassStart(waiting, r)
               ELSE SetRequest(waiting, r, [pc |-> "awaitUpdate"])

\* the route loop from position i up to the next `await route.handler(...)`
Dispatch(h, r, i) ==
  LET j == NextRoute(h, r, i)
  IN  IF j = None THEN PassEnd(h, r)
      ELSE SetTrace(SetRequest(h, r, [pc |-> "handler", route |-> j,
                                      pathname |-> PathnameParameters(h, r, j)]), r,
             [invoked |-> Append(h.trace[r].invoked,
                            [route |-> j, thrown |-> h.trace[r].thrown,
                             error |-> h.request[r].error,
                             state |-> h.request[r].state]),
              everInvoked |-> TRUE])

\* a loop that keeps the state and the error of the pass before
PassStartKeepingError(h, r) ==
  LET c == h.request[r].liveConnection
      promised == IF c = None THEN h
                  ELSE SetRequest(
                         SetLiveConnection(h, c,
                           [writableEnded |-> FALSE, update |-> r]),
                         r, [update |-> FALSE])
      cleared == SetTrace(promised, r,
                   [invoked |-> <<>>, thrown |-> FALSE, handlerEnded |-> FALSE,
                    handlerWrote |-> FALSE, dispatched |-> TRUE,
                    fallback |-> FALSE])
  IN  Dispatch(cleared, r, 1)

\* the top of the do-while loop
PassStart(h, r) ==
  LET c == h.request[r].liveConnection
      promised == IF c = None THEN h
                  ELSE SetRequest(
                         SetLiveConnection(h, c,
                           [writableEnded |-> FALSE, update |-> r]),
                         r, [update |-> FALSE])
      cleared == SetTrace(SetRequest(promised, r,
                                     [state |-> {}, error |-> NoError]), r,
                   [invoked |-> <<>>, thrown |-> FALSE, handlerEnded |-> FALSE,
                    handlerWrote |-> FALSE, dispatched |-> TRUE,
                    fallback |-> FALSE])
  IN  Dispatch(cleared, r, 1)

\* a loop that starts again from the first route when a normal handler threw
AfterHandlerFromTop(h, r) ==
  IF WritableEnded(h, r) THEN PassEnd(h, r)
  ELSE IF /\ h.request[r].error # NoError
          /\ ~h.trace[r].invoked[Len(h.trace[r].invoked)].thrown
       THEN Dispatch(h, r, 1)
       ELSE Dispatch(h, r, h.request[r].route + 1)

\* after `await route.handler(...)` and its catch
AfterHandler(h, r) ==
  IF WritableEnded(h, r) THEN PassEnd(h, r)
  ELSE Dispatch(h, r, h.request[r].route + 1)

\* if (!response.writableEnded) do { ... } while (...); then the candidate
Loop(h, r) ==
  IF h.response[r].writableEnded THEN Prepare(h, r) ELSE PassStart(h, r)

\* liveConnection.update?.(): resolves the promise the connection holds
Update(h, c) ==
  LET u == h.liveConnection[c].update
  IN  IF u = None THEN h
      ELSE IF h.request[u].pc = "awaitUpdate" THEN PassStart(h, u)
      ELSE SetRequest(h, u, [update |-> TRUE])

----------------------------------------------------------------------------
(* Live-connection negotiation *)

\* [...liveConnections].find(c => c.request.id === liveConnectionId)
Find(h, id) ==
  LET found == {k \in 1..Len(h.liveConnections) :
                  h.request[h.liveConnection[h.liveConnections[k]].request].id = id}
  IN  IF found = {} THEN None
      ELSE h.liveConnections[CHOOSE k \in found : \A l \in found : k <= l]

\* a catch that answers with the status the response has
LiveConnectionErrorKeepingStatus(h, r) ==
  End(SetResponse(h, r, [contentType |-> "text/plain"]), r, LiveConnectionMessage)

\* LIVE CONNECTION ERROR
LiveConnectionError(h, r) ==
  End(SetResponse(h, r, [statusCode |-> 400, contentType |-> "text/plain"]),
      r, LiveConnectionMessage)

\* a Create that leaves the request its own random id
CreateKeepingId(h, r, id) ==
  [SetLiveConnection(
     SetTrace(SetRequest(h, r, [liveConnection |-> r]), r, [created |-> TRUE]),
     r, [request |-> r])
   EXCEPT !.liveConnections = Append(@, r)]

\* a Create that arms the abandonment timer as the candidates do
CreateArmingTimeout(h, r, id) ==
  [SetLiveConnection(
     SetTrace(SetRequest(h, r, [id |-> id, liveConnection |-> r]), r,
              [created |-> TRUE]),
     r, [request |-> r, deleteTimeout |-> r])
   EXCEPT !.liveConnections = Append(@, r),
          !.timeouts = @ \cup {r}]

\* LIVE CONNECTION CREATE
Create(h, r, id) ==
  [SetLiveConnection(
     SetTrace(SetRequest(h, r, [id |-> id, liveConnection |-> r]), r,
              [created |-> TRUE]),
     r, [request |-> r])
   EXCEPT !.liveConnections = Append(@, r)]

\* an Establish that does not end the previous response
EstablishWithoutEnd(h, r, c) ==
  LET old == h.liveConnection[c].request
      cleared == [h EXCEPT !.timeouts = @ \ {h.liveConnection[c].deleteTimeout}]
  IN  SetLiveConnection(
        SetTrace(SetRequest(cleared, r, [id |-> h.request[old].id,
                                         liveConnection |-> c]), r,
                 [replaced |-> old,
                  replacedOpen |-> ~h.response[old].writableEnded]),
        c, [request |-> r])

\* an Establish that does not clear the abandonment timer
EstablishWithoutClearTimeout(h, r, c) ==
  LET old == h.liveConnection[c].request
      ended == LiveConnectionEnd(h, old)
  IN  SetLiveConnection(
        SetTrace(SetRequest(ended, r, [id |-> h.request[old].id,
                                       liveConnection |-> c]), r,
                 [replaced |-> old,
                  replacedOpen |-> ~h.response[old].writableEnded]),
        c, [request |-> r])

\* LIVE CONNECTION ESTABLISH on an existing connection c
Establish(h, r, c) ==
  LET old == h.liveConnection[c].request
      cleared == [h EXCEPT !.timeouts = @ \ {h.liveConnection[c].deleteTimeout}]
      ended == LiveConnectionEnd(cleared, old)
  IN  SetLiveConnection(
        SetTrace(SetRequest(ended, r, [id |-> h.request[old].id,
                                       liveConnection |-> c]), r,
                 [replaced |-> old,
                  replacedOpen |-> ~h.response[old].writableEnded]),
        c, [request |-> r])

\* the rest of the try block: listeners, background jobs, the replaced end
Attach(h, r) ==
  SetLiveConnection(
    SetResponse(
      SetRequest(h, r, [closeListener |-> TRUE, backgroundJobs |-> TRUE]),
      r, [contentType |-> "application/json-lines", liveConnectionEnd |-> TRUE]),
    h.request[r].liveConnection, [establish |-> TRUE])

\* a negotiation that does not compare the hrefs
NegotiateWithoutHref(h, r) ==
  LET id == h.request[r].liveConnectionHeader
      c == Find(h, id)
  IN  IF id = None
      THEN SetResponse(h, r, [contentType |-> "text/html"])
      ELSE IF h.request[r].method # "GET" \/ id = MalformedId
      THEN LiveConnectionError(h, r)
      ELSE IF c = None
      THEN Attach(Create(h, r, id), r)
      ELSE Attach(Establish(h, r, c), r)

\* a negotiation that clears the timer before it compares the hrefs
NegotiateClearingTimeout(h, r) ==
  LET id == h.request[r].liveConnectionHeader
      c == Find(h, id)
  IN  IF id = None
      THEN SetResponse(h, r, [contentType |-> "text/html"])
      ELSE IF h.request[r].method # "GET" \/ id = MalformedId
      THEN LiveConnectionError(h, r)
      ELSE IF c = None
      THEN Attach(Create(h, r, id), r)
      ELSE IF h.request[h.liveConnection[c].request].url # h.request[r].url
      THEN LiveConnectionError(
             SetTrace(SetRequest(
                        [h EXCEPT !.timeouts = @ \ {h.liveConnection[c].deleteTimeout}],
                        r, [liveConnection |-> c]), r,
                      [rejected |-> TRUE]), r)
      ELSE Attach(Establish(h, r, c), r)

\* the Live-Connection header: create, reject or establish
Negotiate(h, r) ==
  LET id == h.request[r].liveConnectionHeader
      c == Find(h, id)
  IN  IF id = None
      THEN SetResponse(h, r, [contentType |-> "text/html"])
      ELSE IF h.request[r].method # "GET" \/ id = MalformedId
      THEN LiveConnectionError(h, r)
      ELSE IF c = None
      THEN Attach(Create(h, r, id), r)
      ELSE IF h.request[h.liveConnection[c].request].url # h.request[r].url
      THEN LiveConnectionError(
             SetTrace(SetRequest(h, r, [liveConnection |-> c]), r,
                      [rejected |-> TRUE]), r)
      ELSE Attach(Establish(h, r, c), r)

----------------------------------------------------------------------------
(* Cookies.  A string is the sequence of its characters; the prefix __Host-
   is one character of the alphabet. *)

HostPrefix == "__Host-"
Reserved == {"=", ";", " ", "%"}         \* characters encodeURIComponent escapes
Chars == Reserved \cup {"a", HostPrefix}

\* the escape of a reserved character: its code in hexadecimal
Escape(c) ==
  CASE c = "=" -> <<"%", "3", "D">>
    [] c = ";" -> <<"%", "3", "B">>
    [] c = " " -> <<"%", "2", "0">>
    [] c = "%" -> <<"%", "2", "5">>

\* the character an escape stands for
Unescape(hi, lo) == CHOOSE c \in Reserved : Escape(c) = <<"%", hi, lo>>

IsEscape(s) ==
  /\ Len(s) >= 3
  /\ s[1] = "%"
  /\ \E c \in Reserved : Escape(c) = SubSeq(s, 1, 3)

RECURSIVE encodeURIComponent(_)
encodeURIComponent(s) ==
  IF s = <<>> THEN <<>>
  ELSE (IF Head(s) \in Reserved THEN Escape(Head(s)) ELSE <<Head(s)>>)
       \o encodeURIComponent(Tail(s))

\* decodeURIComponent(s) does not throw a URIError
RECURSIVE Decodable(_)
Decodable(s) ==
  IF s = <<>> THEN TRUE
  ELSE IF Head(s) # "%" THEN Decodable(Tail(s))
  ELSE IsEscape(s) /\ Decodable(SubSeq(s, 4, Len(s)))

RECURSIVE decodeURIComponent(_)
decodeURIComponent(s) ==
  IF s = <<>> THEN <<>>
  ELSE IF Head(s) # "%" THEN <<Head(s)>> \o decodeURIComponent(Tail(s))
  ELSE <<Unescape(s[2], s[3])>> \o decodeURIComponent(SubSeq(s, 4, Len(s)))

\* s.split(separator)
RECURSIVE Split(_, _)
Split(s, separator) ==
  LET at == {i \in 1..Len(s) : s[i] = separator}
      first == CHOOSE i \in at : \A j \in at : i <= j
  IN  IF at = {} THEN <<s>>
      ELSE <<SubSeq(s, 1, first - 1)>> \o Split(SubSeq(s, first + 1, Len(s)), separator)

\* s.trim()
RECURSIVE Trim(_)
Trim(s) ==
  IF s = <<>> THEN s
  ELSE IF Head(s) = " " THEN Trim(Tail(s))
  ELSE IF s[Len(s)] = " " THEN Trim(SubSeq(s, 1, Len(s) - 1))
  ELSE s

\* a parse that keeps the name as the browser sent it
KeepHostPrefix(s) == s

\* parts[0].replace(/^__Host-/, "")
StripHostPrefix(s) == IF s # <<>> /\ Head(s) = HostPrefix THEN Tail(s) ELSE s

\* pair.split("=").map((part) => part.trim())
Parts(pair) ==
  LET parts == Split(pair, "=")
  IN  [i \in 1..Len(parts) |-> Trim(parts[i])]

\* the pair does not make the parse throw
PairOk(pair) ==
  LET parts == Parts(pair)
  IN  /\ \A i \in 1..Len(parts) : Decodable(parts[i])
      /\ Len(parts) = 2
      /\ \A i \in 1..Len(parts) : decodeURIComponent(parts[i]) # <<>>

\* the entry [key, value] of a pair
Entry(pair) ==
  LET parts == Parts(pair)
  IN  <<StripHostPrefix(decodeURIComponent(parts[1])), decodeURIComponent(parts[2])>>

\* the pairs of a Cookie header that are not blank
Pairs(header) ==
  SelectSeq(Split(header, ";"), LAMBDA pair : Trim(pair) # <<>>)

\* the parse of the Cookie header does not throw
CookieOk(header) ==
  \A i \in 1..Len(Pairs(header)) : PairOk(Pairs(header)[i])

\* Object.fromEntries(...): the last entry of a key wins
Cookies(header) ==
  LET pairs == Pairs(header)
      entries == [i \in 1..Len(pairs) |-> Entry(pairs[i])]
      keys == {entries[i][1] : i \in 1..Len(entries)}
  IN  [key \in keys |->
         entries[CHOOSE i \in 1..Len(entries) :
                   /\ entries[i][1] = key
                   /\ \A j \in 1..Len(entries) : entries[j][1] = key => j <= i][2]]

\* the text of a pair of the query string after its first "="
RECURSIVE Join(_, _)
Join(parts, separator) ==
  IF Len(parts) = 0 THEN <<>>
  ELSE IF Len(parts) = 1 THEN parts[1]
  ELSE parts[1] \o <<separator>> \o Join(Tail(parts), separator)

\* Object.fromEntries(request.URL.searchParams) for a query string without
\* escapes: the pairs between "&", each split at its first "="
SearchParams(query) ==
  LET pairs == SelectSeq(Split(query, "&"), LAMBDA pair : pair # <<>>)
      entries == [i \in 1..Len(pairs) |->
                    LET parts == Split(pairs[i], "=")
                    IN  <<parts[1], Join(Tail(parts), "=")>>]
      keys == {entries[i][1] : i \in 1..Len(entries)}
  IN  [key \in keys |->
         entries[CHOOSE i \in 1..Len(entries) :
                   /\ entries[i][1] = key
                   /\ \A j \in 1..Len(entries) : entries[j][1] = key => j <= i][2]]

\* the name=value pair of the Set-Cookie header that setCookie adds
SetCookiePair(key, value) ==
  <<HostPrefix>> \o encodeURIComponent(key) \o <<"=">> \o encodeURIComponent(value)

\* response.setCookie(key, value)
SetCookie(h, r, key, value) ==
  SetResponse(
    SetRequest(h, r, [cookies |-> [k \in DOMAIN h.request[r].cookies \cup {key} |->
                                     IF k = key THEN value ELSE h.request[r].cookies[k]]]),
    r, [setCookie |-> Append(h.response[r].setCookie, SetCookiePair(key, value))])

----------------------------------------------------------------------------
(* The request listener up to the dispatch loop *)

\* a check that forgets the RegExp form of the exception
CsrfRejectedStringOnly(h, r) ==
  /\ h.request[r].method # "GET"
  /\ h.request[r].csrfProtection # "true"
  /\ csrfProtectionExceptionPathname.type = "string"
  /\ h.request[r].url # csrfProtectionExceptionPathname.pathname

\* a check that does not look at the header
CsrfRejectedWhateverHeader(h, r) ==
  /\ h.request[r].method # "GET"
  /\ \/ /\ csrfProtectionExceptionPathname.type = "string"
        /\ h.request[r].url # csrfProtectionExceptionPathname.pathname
     \/ /\ csrfProtectionExceptionPathname.type = "RegExp"
        /\ h.request[r].url \notin csrfProtectionExceptionPathname.matches

\* the cross-site request forgery check
CsrfRejected(h, r) ==
  /\ h.request[r].method # "GET"
  /\ h.request[r].csrfProtection # "true"
  /\ \/ /\ csrfProtectionExceptionPathname.type = "string"
        /\ h.request[r].url # csrfProtectionExceptionPathname.pathname
     \/ /\ csrfProtectionExceptionPathname.type = "RegExp"
        /\ h.request[r].url \notin csrfProtectionExceptionPathname.matches

\* the catch of the context-building try block
Catch(h, r, message) ==
  RealEnd(SetResponse(SetTrace(h, r, [failed |-> TRUE]), r,
            [statusCode |-> IF h.response[r].statusCode = 200 THEN 400
                            ELSE h.response[r].statusCode,
             contentType |-> "text/plain"]),
          r, message)

\* GET /_health
Health(h, r) == RealEnd(SetTrace(h, r, [endpoint |-> TRUE]), r, "")

\* typeof request.body.pathname === "string"
IsString(body, key) ==
  /\ key \in DOMAIN body
  /\ ~body[key].array
  /\ ~body[key].items[1].file

\* value.trim() === ""
Blank(value) == value \in {"", " "}

\* pathname.match(new RegExp(pattern)) !== null, for the patterns "/" (in
\* every pathname) and the literal pathnames (in themselves)
RegExpMatch(pattern, pathname) == pattern = "/" \/ pattern = pathname

\* an endpoint that does not look at the address of the client
AdminWhateverIp(h, r) ==
  /\ h.request[r].method = "POST"
  /\ h.request[r].url = "/__live-connections"

\* the test of the administrative endpoint
Admin(h, r) ==
  /\ h.request[r].ip = Loopback
  /\ h.request[r].method = "POST"
  /\ h.request[r].url = "/__live-connections"

\* POST /__live-connections: the update waits for the close of the response
LiveConnectionsEndpoint(h, r) ==
  LET body == h.request[r].body
      served == SetTrace(SetRequest(h, r, [pc |-> "done"]), r, [endpoint |-> TRUE])
  IN  IF ~IsString(body, Pathname) \/ Blank(body[Pathname].items[1].value)
      THEN RealEnd(SetResponse(served, r, [statusCode |-> 422,
                                           contentType |-> "text/plain"]),
                   r, InvalidPathname)
      ELSE RealEnd(SetRequest(served, r, [adminListener |-> TRUE]), r, "")

\* a listener that goes on after the catch has answered
PreRouterUnguarded(h, r) ==
  IF h.request[r].method = "GET" /\ h.request[r].url = "/_health"
  THEN SetRequest(Health(h, r), r, [pc |-> "done"])
  ELSE Loop(Negotiate(h, r), r)

\* a listener without the liveness probe
PreRouterWithoutHealth(h, r) ==
  IF h.response[r].writableEnded THEN SetRequest(h, r, [pc |-> "done"])
  ELSE Loop(Negotiate(h, r), r)

\* if (!response.writableEnded) { pre-router endpoints, else negotiation and loop }
PreRouter(h, r) ==
  IF h.response[r].writableEnded THEN SetRequest(h, r, [pc |-> "done"])
  ELSE IF h.request[r].method = "GET" /\ h.request[r].url = "/_health"
  THEN SetRequest(Health(h, r), r, [pc |-> "done"])
  ELSE IF Admin(h, r) THEN LiveConnectionsEndpoint(h, r)
  ELSE Loop(Negotiate(h, r), r)

\* the try block up to the body, and its catch
ContextBuild(h, r) ==
  IF ~h.request[r].urlOk THEN PreRouter(Catch(h, r, ParseMessage), r)
  ELSE IF CsrfRejected(h, r)
  THEN PreRouter(Catch(SetResponse(h, r, [statusCode |-> 403]), r, CsrfMessage), r)
  ELSE IF ~CookieOk(h.request[r].cookie)
  THEN PreRouter(Catch(SetRequest(h, r,
                         [search |-> SearchParams(h.request[r].URL.search),
                          cookieOk |-> FALSE]), r, ParseMessage), r)
  ELSE LET parsed == SetRequest(h, r,
                       [search |-> SearchParams(h.request[r].URL.search),
                        cookies |-> Cookies(h.request[r].cookie)])
       IN  IF h.request[r].contentType
           THEN SetRequest(parsed, r, [pc |-> "body", parsing |-> TRUE,
                                       directoriesListener |-> TRUE])
           ELSE PreRouter(parsed, r)

----------------------------------------------------------------------------
(* Body ingestion: the listeners of the busboy events.  A name is the
   sequence of its characters. *)

\* name.endsWith("[]")
EndsWithBrackets(name) ==
  /\ Len(name) >= 2
  /\ name[Len(name) - 1] = "["
  /\ name[Len(name)] = "]"

\* name.slice(0, -"[]".length)
Slice(name) == SubSeq(name, 1, Len(name) - 2)

\* body[key] = value
Put(body, key, value) ==
  [k \in DOMAIN body \cup {key} |-> IF k = key THEN value ELSE body[k]]

\* the value of a field (a string) and of a file (an object with its path)
FieldValue(v) == [file |-> FALSE, path |-> None, value |-> v]
FileValue(k) == [file |-> TRUE, path |-> k, value |-> ""]

\* an exception that leaves a listener of an event emitter: nothing catches it
Uncaught(h, r) == SetRequest(h, r, [pc |-> "uncaught", parsing |-> FALSE])

\* if (name.endsWith("[]")) (body[name.slice(0, -2)] ??= []).push(value);
\* else body[name] = value;
Store(h, r, name, value) ==
  LET body == h.request[r].body
      key == Slice(name)
  IN  IF ~EndsWithBrackets(name)
      THEN SetRequest(h, r, [body |-> Put(body, name,
                                          [array |-> FALSE, items |-> <<value>>])])
      ELSE IF key \notin DOMAIN body
      THEN SetRequest(h, r, [body |-> Put(body, key,
                                          [array |-> TRUE, items |-> <<value>>])])
      ELSE IF body[key].array
      THEN SetRequest(h, r, [body |-> Put(body, key,
                               [array |-> TRUE,
                                items |-> Append(body[key].items, value)])])
      ELSE Uncaught(h, r)   \* a string has no push: TypeError

\* reject(error): settles the promise the listener awaits, if still pending
Reject(h, r, message) ==
  IF h.request[r].pc = "body" /\ h.request[r].bodyError = NoError
  THEN SetRequest(h, r, [bodyError |-> message])
  ELSE h

\* a rejection that forgets the status
RejectKeepingStatus(h, r, message) == Reject(h, r, message)

\* response.statusCode = 413; reject(new Error(message));
RejectTooLarge(h, r, message) ==
  Reject(SetResponse(h, r, [statusCode |-> 413]), r, message)

----------------------------------------------------------------------------
(* Actions *)

\* ids a client can put in a Live-Connection header: its own, and the ids of
\* requests whose response has started to go out
KnownIds ==
  ClientIds \cup {request[q].id : q \in {p \in Requests : response[p].headersSent}}

\* the 'request' event: the listener runs up to its first await
Arrive(r, in) ==
  /\ ~gracefulTerminationEmitted
  /\ request[r].pc = "new"
  /\ \A q \in Requests : q < r => request[q].pc # "new"
  /\ in.liveConnectionHeader \in {None, MalformedId} \cup KnownIds
  /\ Commit(ContextBuild(
       [Heap EXCEPT !.request[r] =
          [f \in DOMAIN NewRequest |->
             IF f \in DOMAIN in THEN in[f]
             ELSE IF f = "id" THEN randomString(r)
             ELSE NewRequest[f]]], r))

\* busboy 'field'
Field(r, name, value, truncated) ==
  /\ request[r].parsing
  /\ request[r].fields < MaxFields
  /\ LET limited == IF truncated THEN RejectTooLarge(Heap, r, FieldTooLarge)
                    ELSE Heap
         counted == SetTrace(
                      SetRequest(limited, r, [fields |-> request[r].fields + 1]),
                      r, [received |-> Append(trace[r].received,
                                        [name |-> name, value |-> FieldValue(value)])])
     IN  Commit(Store(counted, r, name, FieldValue(value)))

\* busboy 'file': the value is stored, then the directory is noted and the
\* asynchronous mkdir and writeFile start
File(r, name, longName) ==
  /\ request[r].parsing
  /\ Len(request[r].files) < MaxFiles
  /\ LET k == Len(request[r].files) + 1
         limited == IF longName THEN RejectTooLarge(Heap, r, FileNameTooLarge)
                    ELSE Heap
         logged == SetTrace(limited, r,
                     [received |-> Append(trace[r].received,
                                    [name |-> name, value |-> FileValue(k)])])
         stored == Store(logged, r, name, FileValue(k))
     IN  Commit(IF stored.request[r].pc = "uncaught" THEN stored
                ELSE SetRequest(stored, r,
                       [files |-> Append(request[r].files, "mkdir"),
                        directoriesToDelete |->
                          request[r].directoriesToDelete \cup {k}]))

\* busboy 'fieldsLimit': one field more than limits.fields
FieldsLimit(r) ==
  /\ request[r].parsing
  /\ request[r].fields = MaxFields
  /\ ~trace[r].fieldsLimit
  /\ Commit(SetTrace(RejectTooLarge(Heap, r, TooManyFields), r,
                     [fieldsLimit |-> TRUE]))

\* busboy 'filesLimit': one file more than limits.files
FilesLimit(r) ==
  /\ request[r].parsing
  /\ Len(request[r].files) = MaxFiles
  /\ ~trace[r].filesLimit
  /\ Commit(SetTrace(RejectTooLarge(Heap, r, TooManyFiles), r,
                     [filesLimit |-> TRUE]))

\* busboy 'error': the parser stops
BusboyError(r) ==
  /\ request[r].parsing
  /\ Commit(SetRequest(Reject(Heap, r, ParseMessage), r, [parsing |-> FALSE]))

\* await fs.mkdir(path.dirname(value.path)) completes
Mkdir(r, k) ==
  /\ k \in 1..Len(request[r].files)
  /\ request[r].files[k] = "mkdir"
  /\ Commit([SetRequest(Heap, r, [files |-> [request[r].files EXCEPT ![k] = "write"]])
              EXCEPT !.tmpdir = @ \cup {<<r, k>>}])

\* a check of file.truncated that throws without setting the status
WriteFileKeepingStatus(r, k, truncated) ==
  /\ k \in 1..Len(request[r].files)
  /\ request[r].files[k] = "write"
  /\ Commit(IF <<r, k>> \notin tmpdir
            THEN SetRequest(Heap, r,
                   [files |-> [request[r].files EXCEPT ![k] = "failed"]])
            ELSE IF truncated
            THEN SetRequest(Heap, r,
                   [files |-> [request[r].files EXCEPT ![k] = "truncated"]])
            ELSE SetRequest(Heap, r,
                   [files |-> [request[r].files EXCEPT ![k] = "done"]]))

\* await fs.writeFile(value.path, file) completes, and the check of
\* file.truncated
WriteFile(r, k, truncated) ==
  /\ k \in 1..Len(request[r].files)
  /\ request[r].files[k] = "write"
  /\ Commit(IF <<r, k>> \notin tmpdir
            THEN SetRequest(Heap, r,
                   [files |-> [request[r].files EXCEPT ![k] = "failed"]])
            ELSE IF truncated
            THEN SetRequest(SetResponse(Heap, r, [statusCode |-> 413]), r,
                   [files |-> [request[r].files EXCEPT ![k] = "truncated"]])
            ELSE SetRequest(Heap, r,
                   [files |-> [request[r].files EXCEPT ![k] = "done"]]))

\* busboy 'close' resolves the promise, in this step or before it, and
\* Promise.all(filesPromises) settles: the body has been read and the files
\* written, or a write has failed
BodyDone(r) ==
  /\ request[r].pc = "body"
  /\ request[r].bodyError = NoError
  /\ LET files == request[r].files
         rejected == {k \in 1..Len(files) : files[k] \in {"truncated", "failed"}}
         pending == {k \in 1..Len(files) : files[k] \in {"mkdir", "write"}}
         closed == SetRequest(Heap, r, [parsing |-> FALSE])
     IN  /\ rejected # {} \/ pending = {}
         /\ Commit(IF rejected = {} THEN PreRouter(closed, r)
                   ELSE PreRouter(
                          Catch(closed, r,
                                IF \E k \in rejected : files[k] = "truncated"
                                THEN FileTooLarge ELSE WriteFailed), r))

\* the promise was rejected: the catch of the try block runs
BodyCatch(r) ==
  /\ request[r].pc = "body"
  /\ request[r].bodyError # NoError
  /\ Commit(PreRouter(Catch(Heap, r, request[r].bodyError), r))

\* busboy 'close': resolve(), which has no effect after a rejection; the
\* listener goes on to await Promise.all(filesPromises)
BusboyClose(r) ==
  /\ request[r].parsing
  /\ Commit(SetTrace(SetRequest(Heap, r, [parsing |-> FALSE]), r,
       [closedBeforeWrite |->
          \E k \in 1..Len(request[r].files) :
            request[r].files[k] \in {"mkdir", "write"}]))

\* a handler calls response.end(...) and goes on
HandlerEnd(r, type) ==
  /\ request[r].pc = "handler"
  /\ Commit(SetTrace(
       End(IF response[r].headersSent \/ type = response[r].contentType THEN Heap
           ELSE SetResponse(Heap, r, [contentType |-> type]),
           r, HandlerBody),
       r, [handlerEnded |-> TRUE]))

\* a handler calls response.write(...) and goes on
HandlerWrite(r) ==
  /\ request[r].pc = "handler"
  /\ ~response[r].headersSent
  /\ Commit(SetTrace(Write(Heap, r, ""), r, [handlerWrote |-> TRUE]))

\* a handler calls response.setCookie(key, value), which exists on the
\* responses of the requests without a Live-Connection header
HandlerSetCookie(r, key, value) ==
  /\ request[r].pc = "handler"
  /\ request[r].liveConnectionHeader = None
  /\ ~response[r].headersSent
  /\ response[r].setCookie = <<>>
  /\ Commit(SetTrace(SetCookie(Heap, r, key, value), r,
                     [setCookie |-> <<key, value>>]))

\* a handler writes a property of request.state
HandlerState(r, key) ==
  /\ request[r].pc = "handler"
  /\ Commit(SetRequest(Heap, r, [state |-> request[r].state \cup {key}]))

\* a handler returns
HandlerReturn(r) ==
  /\ request[r].pc = "handler"
  /\ Commit(AfterHandler(Heap, r))

\* a catch that keeps the error recorded first
HandlerThrowKeepingError(r, error) ==
  /\ request[r].pc = "handler"
  /\ Commit(AfterHandler(
       SetTrace(SetRequest(Heap, r,
                  [error |-> IF request[r].error = NoError THEN error
                             ELSE request[r].error]), r,
                [thrown |-> TRUE, everThrown |-> TRUE]), r))

\* a handler throws
HandlerThrow(r, error) ==
  /\ request[r].pc = "handler"
  /\ Commit(AfterHandler(
       SetTrace(SetRequest(Heap, r, [error |-> error]), r,
                [thrown |-> TRUE, everThrown |-> TRUE]), r))

\* a handler calls response.afters.push(...): the response has no afters,
\* and the TypeError leaves the handler
HandlerPushAfter(r) ==
  /\ request[r].pc = "handler"
  /\ response[r].afters = None
  /\ Commit(AfterHandler(
       SetTrace(SetRequest(Heap, r, [error |-> TypeError]), r,
                [thrown |-> TRUE, pushedAfter |-> TRUE]), r))

\* the periodicUpdates background job of request r
PeriodicUpdates(r) ==
  /\ request[r].backgroundJobs
  /\ Commit(Update(Heap, request[r].liveConnection))

\* the heartbeat background job of request r
Heartbeat(r) ==
  /\ request[r].backgroundJobs
  /\ Commit(Write(Heap, r, ""))

\* the timer a request armed deletes the connection of that request
TimeoutTarget(h, t) ==
  IF h.request[t].liveConnection # None THEN h.request[t].liveConnection ELSE t

\* a close listener that arms the timer whoever the current request is
CloseListenerUnconditional(h, r) ==
  [SetLiveConnection(SetRequest(h, r, [backgroundJobs |-> FALSE]),
                     h.request[r].liveConnection, [deleteTimeout |-> r])
   EXCEPT !.timeouts = @ \cup {r}]

\* LIVE CONNECTION CLOSE
CloseListener(h, r) ==
  LET c == h.request[r].liveConnection
      stopped == SetRequest(h, r, [backgroundJobs |-> FALSE])
  IN  IF h.liveConnection[c].request = r
      THEN [SetLiveConnection(stopped, c, [deleteTimeout |-> r])
            EXCEPT !.timeouts = @ \cup {r}]
      ELSE stopped

\* the test of the sweep: the pathname of the connection's current request
\* against the pattern of the administrative request
SweepMatches(h, r, c) ==
  RegExpMatch(h.request[r].body[Pathname].items[1].value,
              h.request[h.liveConnection[c].request].url)

\* the loop of the sweep, from the first connection it has not visited up to
\* its next `await timers.setTimeout(200)` or its end
RECURSIVE Sweep(_, _)
Sweep(h, r) ==
  LET rest == SelectSeq(h.liveConnections,
                        LAMBDA c : c \notin h.request[r].adminVisited)
      c == rest[1]
      current == h.liveConnection[c].request
      visited == SetRequest(h, r,
                   [adminVisited |-> h.request[r].adminVisited \cup {c}])
      reset == SetLiveConnection(visited, c, [skipUpdateOnEstablish |-> FALSE])
  IN  IF rest = <<>> THEN SetRequest(h, r, [adminRunning |-> FALSE])
      ELSE IF ~SweepMatches(h, r, c) THEN Sweep(visited, r)
      ELSE IF h.response[current].closed \/ h.response[current].writableEnded
      THEN reset
      ELSE Update(reset, c)

\* for (const directoryToDelete of directoriesToDelete) await fs.rm(...)
RemoveDirectories(h, r) ==
  [h EXCEPT !.tmpdir = @ \ {<<r, k>> : k \in h.request[r].directoriesToDelete}]

\* the 'close' event of response r
Close(r) ==
  /\ request[r].pc # "new"
  /\ ~response[r].closed
  /\ LET closed == SetResponse(Heap, r, [closed |-> TRUE])
         removed == IF request[r].directoriesListener
                    THEN RemoveDirectories(closed, r) ELSE closed
         swept == IF request[r].adminListener
                  THEN Sweep(SetRequest(removed, r, [adminRunning |-> TRUE]), r)
                  ELSE removed
     IN  Commit(IF request[r].closeListener THEN CloseListener(swept, r)
                ELSE swept)

\* the sweep of an administrative request goes on after its timer
SweepStep(r) ==
  /\ request[r].adminRunning
  /\ Commit(Sweep(Heap, r))

\* LIVE CONNECTION DELETE
Delete(h, t) ==
  [h EXCEPT !.timeouts = @ \ {t},
            !.liveConnections = SelectSeq(@, LAMBDA c : c # TimeoutTarget(h, t))]

Timeout(t) ==
  /\ t \in timeouts
  /\ Commit(Delete(Heap, t))

\* for (const liveConnection of liveConnections)
\*   liveConnection.response.liveConnectionEnd?.();
RECURSIVE EndLiveConnections(_, _)
EndLiveConnections(h, k) ==
  IF k > Len(h.liveConnections) THEN h
  ELSE EndLiveConnections(
         LiveConnectionEnd(h, h.liveConnection[h.liveConnections[k]].request),
         k + 1)

\* the listener the server registers with process.once("gracefulTermination"):
\* httpServer.close(), which stops the 'request' events of new connections,
\* and the end of the live connections' responses
Shutdown ==
  /\ CommitHeap(EndLiveConnections(Heap, 1))
  /\ process' = [process EXCEPT !.signals = @ + 1, !.emitted = @ + 1,
                                 !.listener = FALSE, !.closes = @ + 1]

\* process.emit("gracefulTermination"): a listener registered with once is
\* removed before it runs
Emit ==
  IF process.listener THEN Shutdown
  ELSE /\ process' = [process EXCEPT !.signals = @ + 1, !.emitted = @ + 1]
       /\ UNCHANGED <<request, response, liveConnection, liveConnections,
                      timeouts, tmpdir, trace>>

\* a signal handler that emits the event whether or not it was emitted
SignalWithoutFlag ==
  /\ process.signals < MaxSignals
  /\ gracefulTerminationEmitted' = TRUE
  /\ Emit
  /\ UNCHANGED <<routes, csrfProtectionExceptionPathname, database>>

\* SIGINT, SIGQUIT, SIGBREAK, SIGHUP, SIGTERM or SIGUSR2
Signal ==
  /\ process.signals < MaxSignals
  /\ IF gracefulTerminationEmitted
     THEN /\ process' = [process EXCEPT !.signals = @ + 1]
          /\ UNCHANGED <<request, response, liveConnection, liveConnections,
                         timeouts, tmpdir, trace, gracefulTerminationEmitted>>
     ELSE /\ gracefulTerminationEmitted' = TRUE
          /\ Emit
  /\ UNCHANGED <<routes, csrfProtectionExceptionPathname, database>>

\* the first termination signal
GracefulTermination ==
  /\ ~gracefulTerminationEmitted
  /\ Signal

----------------------------------------------------------------------------
(* Database.migrate of src/sqlite.  The database holds user_version, the
   foreign_keys setting and, as `schema`, the migrations whose statements it
   contains; a transaction keeps what ROLLBACK restores.  The call of
   migrate() is at the loop test ("loop"), at `await migration(this)`
   ("await") or not running ("idle"). *)

Kinds == {"query", "function"}
Outcomes == {"ok", "throws", "violations"}
NoTransaction == <<>>

NewDatabase ==
  [user_version |-> 0, foreign_keys |-> TRUE, journal_mode |-> "delete",
   schema |-> {}, transaction |-> NoTransaction,
   pc |-> "idle", migrations |-> <<>>, migrationIndex |-> 0,
   foreignKeys |-> FALSE, error |-> FALSE, known |-> <<>>, calls |-> 0,
   runs |-> [i \in 1..MaxMigrations |-> 0],
   failed |-> [i \in 1..MaxMigrations |-> 0],
   started |-> {}]

\* BEGIN;
Begin(d) ==
  [d EXCEPT !.transaction = <<[user_version |-> d.user_version, schema |-> d.schema]>>]

\* COMMIT;
CommitTransaction(d) == [d EXCEPT !.transaction = NoTransaction]

\* a catch that ends the transaction with what the migration did
RollbackKeepingSchema(d) ==
  [d EXCEPT !.user_version = d.transaction[1].user_version,
            !.transaction = NoTransaction]

\* ROLLBACK;
Rollback(d) ==
  [d EXCEPT !.user_version = d.transaction[1].user_version,
            !.schema = d.transaction[1].schema,
            !.transaction = NoTransaction]

\* finally { if (foreignKeys) this.pragma("foreign_keys = ON"); }
Finally(d) ==
  [d EXCEPT !.foreign_keys = IF d.foreignKeys THEN TRUE ELSE @, !.pc = "idle"]

\* the loop test, and the return of migrate() when it fails
LoopTest(d) ==
  IF d.migrationIndex < Len(d.migrations) THEN [d EXCEPT !.pc = "loop"]
  ELSE Finally(d)

\* BEGIN and the statements of the migration at migrationIndex (the array
\* of the code starts at 0, the sequence of the model at 1)
Start(d) ==
  [Begin(d) EXCEPT !.schema = @ \cup {d.migrationIndex + 1},
                   !.started = @ \cup {d.migrationIndex + 1}]

\* from the end of the migration's statements to the end of the iteration:
\* the foreign key check, user_version and COMMIT, or the catch
Settle(d, outcome) ==
  LET i == d.migrationIndex + 1
  IN  IF outcome = "throws" \/ (outcome = "violations" /\ d.foreignKeys)
      THEN Finally([Rollback(d) EXCEPT !.error = TRUE, !.failed[i] = 1])
      ELSE LoopTest([CommitTransaction([d EXCEPT !.user_version = d.migrationIndex + 1])
                     EXCEPT !.migrationIndex = @ + 1, !.runs[i] = @ + 1])

\* a loop that starts from the first migration
FirstIndexZero(d) == 0

\* let migrationIndex = this.pragma("user_version", { simple: true })
FirstIndex(d) == d.user_version

\* the lists of migrations that extend the list of the calls before
Extensions(known) ==
  {migrations \in UNION {[1..n -> Kinds] : n \in Len(known)..MaxMigrations} :
     SubSeq(migrations, 1, Len(known)) = known}

\* database.migrate(...migrations), up to the first iteration
Migrate(migrations) ==
  /\ database.pc = "idle"
  /\ database.calls < MaxCalls
  /\ migrations \in Extensions(database.known)
  /\ LET pragmas == [database EXCEPT !.journal_mode = "wal",
                                     !.foreignKeys = database.foreign_keys,
                                     !.foreign_keys = FALSE,
                                     !.migrations = migrations,
                                     !.known = migrations,
                                     !.calls = @ + 1,
                                     !.error = FALSE]
     IN  database' = LoopTest([pragmas EXCEPT !.migrationIndex = FirstIndex(pragmas)])
  /\ UNCHANGED <<request, response, liveConnection, liveConnections, timeouts,
                 tmpdir, routes, csrfProtectionExceptionPathname,
                 gracefulTerminationEmitted, process, trace>>

\* the application sets the foreign_keys pragma between calls of migrate()
ForeignKeys(value) ==
  /\ database.pc = "idle"
  /\ database' = [database EXCEPT !.foreign_keys = value]
  /\ UNCHANGED <<request, response, liveConnection, liveConnections, timeouts,
                 tmpdir, routes, csrfProtectionExceptionPathname,
                 gracefulTerminationEmitted, process, trace>>

\* an iteration whose migration is a query: this.execute(migration)
MigrationQuery(outcome) ==
  /\ database.pc = "loop"
  /\ database.migrations[database.migrationIndex + 1] = "query"
  /\ database' = Settle(Start(database), outcome)
  /\ UNCHANGED <<request, response, liveConnection, liveConnections, timeouts,
                 tmpdir, routes, csrfProtectionExceptionPathname,
                 gracefulTerminationEmitted, process, trace>>

\* an iteration whose migration is a function, up to `await migration(this)`
MigrationFunction ==
  /\ database.pc = "loop"
  /\ database.migrations[database.migrationIndex + 1] = "function"
  /\ database' = [Start(database) EXCEPT !.pc = "await"]
  /\ UNCHANGED <<request, response, liveConnection, liveConnections, timeouts,
                 tmpdir, routes, csrfProtectionExceptionPathname,
                 gracefulTerminationEmitted, process, trace>>

\* the promise of the migration settles
MigrationSettled(outcome) ==
  /\ database.pc = "await"
  /\ database' = Settle(database, outcome)
  /\ UNCHANGED <<request, response, liveConnection, liveConnections, timeouts,
                 tmpdir, routes, csrfProtectionExceptionPathname,
                 gracefulTerminationEmitted, process, trace>>

----------------------------------------------------------------------------
(* Specifications *)

DefaultException == [type |-> "string", pathname |-> "", matches |-> {}]
CatchAll == [method |-> Wildcard, pathname |-> Wildcard, error |-> FALSE]

InitObjects ==
  /\ request = [r \in Requests |-> NewRequest]
  /\ response = [r \in Requests |-> NewResponse]
  /\ liveConnection = [r \in Requests |-> NoLiveConnection]
  /\ liveConnections = <<>>
  /\ timeouts = {}
  /\ tmpdir = {}
  /\ gracefulTerminationEmitted = FALSE
  /\ process = [signals |-> 0, emitted |-> 0, listener |-> TRUE, closes |-> 0]
  /\ database = NewDatabase
  /\ trace = [r \in Requests |-> NewTrace]

(* The live-connection protocol: GET requests without a body over one
   catch-all route, whose handler may end the response and may go on after it *)
LiveInputs ==
  [method : {"GET"}, url : {"/a", "/b"},
   liveConnectionHeader : {None} \cup ClientIds \cup Requests]

Init ==
  /\ InitObjects
  /\ routes = <<CatchAll>>
  /\ csrfProtectionExceptionPathname = DefaultException

Next ==
  \/ \E r \in Requests, in \in LiveInputs : Arrive(r, in)
  \/ \E r \in Requests : HandlerEnd(r, "text/html")
  \/ \E r \in Requests : HandlerReturn(r)
  \/ \E r \in Requests : request[r].closeListener /\ Close(r)
  \/ \E t \in Requests : Timeout(t)

Spec == Init /\ [][Next]_vars

----------------------------------------------------------------------------
(* Properties of the live-connection registry *)

Registered == {liveConnections[k] : k \in 1..Len(liveConnections)}

\* the id of the k-th registered connection: the id of its current request
ConnectionId(k) == request[liveConnection[liveConnections[k]].request].id

\* request r gets past context building and the pre-router endpoints in this
\* step, carrying a well-formed Live-Connection header on a GET
Negotiates(r) ==
  /\ request[r].pc \in {"new", "body"}
  /\ request'[r].pc \notin {"new", "body"}
  /\ request'[r].method = "GET"
  /\ request'[r].url # "/_health"
  /\ request'[r].urlOk /\ request'[r].cookieOk
  /\ request'[r].liveConnectionHeader \notin {None, MalformedId}

\* C1: at most one registered connection has any given id.
C1_OneConnectionPerId ==
  \A k, l \in 1..Len(liveConnections) :
    ConnectionId(k) = ConnectionId(l) => k = l

\* C2: a GET with a registered Live-Connection id and the URL of the
\* connection's current request leaves the previous response really ended and
\* makes the new request (and its response) the connection's current one.
C2_Reattach ==
  [][\A r \in Requests :
       LET c == Find(Heap, request'[r].liveConnectionHeader)
       IN  (/\ Negotiates(r)
            /\ c # None
            /\ request[liveConnection[c].request].url = request'[r].url)
           => /\ response'[liveConnection[c].request].writableEnded
              /\ liveConnection'[c].request = r
              /\ request'[r].liveConnection = c]_vars

\* a request took over a connection whose previous response was still open
C2_Witness ==
  \E r \in Requests :
    /\ trace[r].replaced # None
    /\ trace[r].replacedOpen
    /\ response[trace[r].replaced].writableEnded
    /\ liveConnection[request[r].liveConnection].request = r

\* C4: every pending abandonment timer was armed by the request that is still
\* the current request of the connection it deletes: a timer armed before a
\* reattachment is not pending (so cannot delete the connection) after it.
C4_NoStaleTimeout ==
  \A t \in timeouts : liveConnection[TimeoutTarget(Heap, t)].request = t

\* a request reattached to a registered connection whose timer had been armed
C4_Witness ==
  \E r \in Requests :
    LET c == request[r].liveConnection
    IN  /\ trace[r].replaced # None
        /\ c \in Registered
        /\ liveConnection[c].request = r
        /\ liveConnection[c].deleteTimeout = trace[r].replaced
        /\ trace[r].replaced \notin timeouts

PassOver(r) == trace[r].dispatched /\ request[r].pc \in {"done", "awaitUpdate"}

\* C13: what a pass consults to decide that its response was ended is written
\* by that request's own pass only: a pass that is over without the
\* dispatcher's fallback is one in which a handler of that very request ended
\* the response.
C13_OwnPassDecides ==
  \A r \in Requests :
    (PassOver(r) /\ ~trace[r].fallback) => trace[r].handlerEnded

----------------------------------------------------------------------------
(* The dispatcher: one request, plain or live, over every list of routes *)

RouteSet == [method : {Wildcard, "GET"}, pathname : {Wildcard, "/a"}, error : BOOLEAN]
RouteLists == UNION {[1..n -> RouteSet] : n \in 0..MaxRoutes}

DispatchInputs ==
  [method : Methods, url : {"/a", "/b"}, liveConnectionHeader : {None} \cup ClientIds,
   csrfProtection : {"true"}]

InitDispatch ==
  /\ InitObjects
  /\ routes \in RouteLists
  /\ csrfProtectionExceptionPathname = DefaultException

NextDispatch ==
  \/ \E r \in 1..DispatchRequests, in \in DispatchInputs : Arrive(r, in)
  \/ \E r \in Requests : HandlerEnd(r, "text/html")
  \/ \E r \in Requests : HandlerWrite(r)
  \/ \E r \in Requests : HandlerReturn(r)
  \/ \E r \in Requests, error \in Errors : HandlerThrow(r, error)
  \/ \E r \in Requests : PeriodicUpdates(r)
  \/ \E r \in Requests : Heartbeat(r)
  \/ \E r \in Requests : request[r].closeListener /\ Close(r)
  \/ \E t \in Requests : Timeout(t)

SpecDispatch == InitDispatch /\ [][NextDispatch]_vars

\* route j matches the method and pathname of request r
Matches(r, j) ==
  /\ routes[j].method = Wildcard \/ routes[j].method = request[r].method
  /\ routes[j].pathname = Wildcard \/ routes[j].pathname = request[r].url

\* the route of the handler that threw first in the pass of request r: the
\* last one invoked before any throw
Thrower(r) ==
  LET log == trace[r].invoked
      normal == {k \in 1..Len(log) : ~log[k].thrown}
  IN  log[CHOOSE k \in normal : \A l \in normal : l <= k].route

InvokedRoutes(r) == {trace[r].invoked[k].route : k \in 1..Len(trace[r].invoked)}

EndsPassUnended(r) ==
  \/ /\ request[r].pc \in {"new", "body"}
     /\ PassOver(r)'
  \/ /\ request[r].pc = "handler"
     /\ ~WritableEnded(Heap, r)
     /\ ~response[r].writableEnded
     /\ PassOver(r)' \/ (request[r].update /\ ~request'[r].update)

\* C9 as stated: a pass that no handler ended leaves status 500 and the
\* diagnostic body.
C9_Always500 ==
  \A r \in Requests :
    (PassOver(r) /\ ~trace[r].handlerEnded)
    => /\ response[r].statusCode = 500
       /\ response[r].body = DiagnosticMessage

\* C9 amended: when a pass finishes with the response not marked as ended
\* and its stream still open, the dispatcher ends it with the diagnostic body
\* (written as one JSON line when a live connection is attached),
\* with status 500 unless the
\* headers were already sent (then the status sent stays); a dispatched
\* request without a live connection never stays un-ended.
C9_FallbackUnlessHeadersSent ==
  /\ [](\A r \in Requests :
          (PassOver(r) /\ request[r].liveConnection = None)
          => response[r].writableEnded)
  /\ [][\A r \in Requests :
          EndsPassUnended(r)
          => /\ response'[r].body =
                  IF response'[r].liveConnectionEnd
                  THEN JSONStringify(DiagnosticMessage) \o "\n"
                  ELSE DiagnosticMessage
             /\ response'[r].statusCode =
                  IF response[r].headersSent /\ request[r].pc = "handler"
                  THEN response[r].statusCode ELSE 500
             /\ request'[r].liveConnection = None => response'[r].writableEnded]_vars

\* no route matched: zero handlers, and the dispatcher answered 500
C9_Witness ==
  \E r \in Requests :
    /\ PassOver(r)
    /\ ~trace[r].everInvoked
    /\ response[r].writableEnded
    /\ response[r].statusCode = 500
    /\ response[r].body = DiagnosticMessage

----------------------------------------------------------------------------
(* Cross-site request forgery protection *)

CsrfExceptions ==
  {DefaultException,
   [type |-> "string", pathname |-> "/webhook", matches |-> {}],
   [type |-> "RegExp", pathname |-> "", matches |-> {"/webhook"}]}

CsrfInputs ==
  [method : Methods, url : {"/a", "/webhook"}, liveConnectionHeader : {None},
   csrfProtection : {"absent", "true", "1"}, urlOk : BOOLEAN,
   cookie : {<<>>, <<"a">>}]

InitCsrf ==
  /\ InitObjects
  /\ routes = <<CatchAll>>
  /\ csrfProtectionExceptionPathname \in CsrfExceptions

NextCsrf ==
  \/ \E r \in 1..DispatchRequests, in \in CsrfInputs : Arrive(r, in)
  \/ \E r \in Requests : HandlerEnd(r, "text/html")
  \/ \E r \in Requests : HandlerReturn(r)
  \/ \E t \in Requests : Timeout(t)

SpecCsrf == InitCsrf /\ [][NextCsrf]_vars

\* the pathname is the configured exception
Exempt(pathname) ==
  \/ /\ csrfProtectionExceptionPathname.type = "string"
     /\ pathname = csrfProtectionExceptionPathname.pathname
  \/ /\ csrfProtectionExceptionPathname.type = "RegExp"
     /\ pathname \in csrfProtectionExceptionPathname.matches

\* C10: a non-GET request without the CSRF header whose pathname is not the
\* exception is answered 403 with the explanation, and no handler runs.
C10_CsrfRejects ==
  \A r \in Requests :
    (/\ request[r].pc # "new"
     /\ request[r].urlOk
     /\ request[r].method # "GET"
     /\ request[r].csrfProtection = "absent"
     /\ ~Exempt(request[r].url))
    => /\ response[r].statusCode = 403
       /\ response[r].body = CsrfMessage
       /\ response[r].writableEnded
       /\ ~trace[r].everInvoked
       /\ request[r].pc = "done"

C10_Witness ==
  \E r \in Requests :
    /\ request[r].method = "POST"
    /\ request[r].csrfProtection = "absent"
    /\ csrfProtectionExceptionPathname.type = "RegExp"
    /\ response[r].statusCode = 403
    /\ response[r].body = CsrfMessage

\* C18 as stated: a non-GET request with any non-empty value of the CSRF
\* header is not rejected by the CSRF protection.
C18_AnyTruthyValue ==
  \A r \in Requests :
    (/\ request[r].pc # "new"
     /\ request[r].urlOk
     /\ request[r].method # "GET"
     /\ request[r].csrfProtection # "absent")
    => /\ response[r].statusCode # 403
       /\ response[r].body # CsrfMessage

\* C18 amended: a non-GET request whose CSRF header is exactly "true" is not
\* rejected by the CSRF protection; with any other value it is treated as
\* one without the header (403 unless the pathname is the exception).
C18_ExactlyTrue ==
  \A r \in Requests :
    (/\ request[r].pc # "new"
     /\ request[r].urlOk
     /\ request[r].method # "GET")
    => /\ request[r].csrfProtection = "true"
          => /\ response[r].statusCode # 403
             /\ response[r].body # CsrfMessage
       /\ (request[r].csrfProtection # "true" /\ ~Exempt(request[r].url))
          => /\ response[r].statusCode = 403
             /\ response[r].body = CsrfMessage
             /\ ~trace[r].everInvoked

\* a POST outside the exception got through to a handler with the header
\* "true"
C18_Witness ==
  \E r \in Requests :
    /\ request[r].method = "POST"
    /\ request[r].urlOk
    /\ request[r].csrfProtection = "true"
    /\ ~Exempt(request[r].url)
    /\ trace[r].everInvoked
    /\ response[r].statusCode = 200
    /\ response[r].writableEnded

----------------------------------------------------------------------------
(* Abandonment: requests with and without a body, whose response may close
   at any moment from the 'request' event on *)

CloseInputs ==
  [method : {"GET"}, url : {"/a"},
   liveConnectionHeader : {None} \cup ClientIds \cup Requests,
   contentType : BOOLEAN]

NextClose ==
  \/ \E r \in 1..CloseRequests, in \in CloseInputs : Arrive(r, in)
  \/ \E r \in Requests : BodyDone(r)
  \/ \E r \in Requests : HandlerEnd(r, "text/html")
  \/ \E r \in Requests : HandlerReturn(r)
  \/ \E r \in Requests : Close(r)
  \/ \E t \in Requests : Timeout(t)

\* a timer that is armed fires
SpecClose ==
  Init /\ [][NextClose]_vars /\ WF_vars(\E t \in Requests : Timeout(t))

\* connection c is registered and its current response has closed
Abandoned(c) ==
  /\ c \in Registered
  /\ response[liveConnection[c].request].closed

\* C3: a registered connection whose current response has closed is
\* eventually removed from the registry, unless a request reattaches to it.
C3_AbandonedIsDeleted ==
  \A c \in Requests : Abandoned(c) ~> ~Abandoned(c)

----------------------------------------------------------------------------
(* Body ingestion: one request, its fields and files, the limits, the
   asynchronous writes of the files and the close of the response *)

Names == {<<"a">>, <<"a", "[", "]">>}
Values == {"v1", "v2"}

BodyInputs ==
  [method : Methods, url : {"/a", "/_health"},
   liveConnectionHeader : {None} \cup ClientIds,
   csrfProtection : {"absent", "true"}, urlOk : BOOLEAN, cookie : {<<>>, <<"a">>},
   contentType : BOOLEAN]

NextBody ==
  \/ \E r \in 1..DispatchRequests, in \in BodyInputs : Arrive(r, in)
  \/ \E r \in Requests, name \in Names, value \in Values, truncated \in BOOLEAN :
       Field(r, name, value, truncated)
  \/ \E r \in Requests, name \in Names, longName \in BOOLEAN : File(r, name, longName)
  \/ \E r \in Requests : FieldsLimit(r)
  \/ \E r \in Requests : FilesLimit(r)
  \/ \E r \in Requests : BusboyError(r)
  \/ \E r \in Requests, k \in 1..MaxFiles : Mkdir(r, k)
  \/ \E r \in Requests, k \in 1..MaxFiles, truncated \in BOOLEAN :
       WriteFile(r, k, truncated)
  \/ \E r \in Requests : BodyDone(r)
  \/ \E r \in Requests : BodyCatch(r)
  \/ \E r \in Requests : BusboyClose(r)
  \/ \E r \in Requests : HandlerEnd(r, "text/html")
  \/ \E r \in Requests : HandlerReturn(r)
  \/ \E r \in Requests : Close(r)
  \/ \E t \in Requests : Timeout(t)

SpecBody == Init /\ [][NextBody]_vars

\* the body of request r has been read without a failure
Ingested(r) ==
  /\ request[r].contentType
  /\ request[r].pc \notin {"new", "body", "uncaught"}
  /\ ~trace[r].failed

\* the values received under a name, in arrival order
ReceivedUnder(r, name) ==
  LET received == SelectSeq(trace[r].received, LAMBDA e : e.name = name)
  IN  [k \in 1..Len(received) |-> received[k].value]

\* C14: every sequence of fields and files is ingested (no listener throws),
\* and after ingestion every name received with the suffix [] maps, under the
\* name without the suffix, to the array of all its values in arrival order,
\* and every other name received maps to the last value received under it.
C14_BodyShape ==
  \A r \in Requests :
    /\ request[r].pc # "uncaught"
    /\ Ingested(r)
       => \A k \in 1..Len(trace[r].received) :
            LET name == trace[r].received[k].name
                body == request[r].body
                values == ReceivedUnder(r, name)
            IN  IF EndsWithBrackets(name)
                THEN /\ Slice(name) \in DOMAIN body
                     /\ body[Slice(name)].array
                     /\ body[Slice(name)].items = values
                ELSE /\ name \in DOMAIN body
                     /\ ~body[name].array
                     /\ body[name].items = <<values[Len(values)]>>

\* C11: a request that failed in context building or body ingestion (the
\* catch answered 400, 403 or 413) has no handler invoked and no pre-router
\* endpoint served, is attached to no live connection, and the step of its
\* failure leaves the registry, its connections and their timers as they were.
C11_FailureStopsRequest ==
  /\ [](\A r \in Requests :
          trace[r].failed
          => /\ ~trace[r].everInvoked
             /\ ~trace[r].dispatched
             /\ ~trace[r].endpoint
             /\ request[r].liveConnection = None
             /\ ~request[r].closeListener
             /\ r \notin Registered
             /\ request[r].pc \in {"done", "uncaught"}
             /\ response[r].writableEnded
             /\ response[r].statusCode \in {400, 403, 413})
  /\ [][\A r \in Requests :
          (~trace[r].failed /\ trace'[r].failed)
          => /\ liveConnections' = liveConnections
             /\ liveConnection' = liveConnection
             /\ timeouts' = timeouts]_vars

\* a request with a Live-Connection header failed in body ingestion
C11_Witness ==
  \E r \in Requests :
    /\ trace[r].failed
    /\ request[r].liveConnectionHeader \in ClientIds
    /\ request[r].method = "GET"
    /\ request[r].bodyError # NoError
    /\ response[r].statusCode = 413
    /\ request[r].pc = "done"

\* C15: once a body has had more fields than the limit, the status of the
\* response is 413, the catch ends it, and no handler is ever invoked for
\* the request.
C15_TooManyFields ==
  \A r \in Requests :
    trace[r].fieldsLimit
    => /\ response[r].statusCode = 413
       /\ ~trace[r].dispatched
       /\ ~trace[r].everInvoked
       /\ request[r].pc \in {"body", "done", "uncaught"}
       /\ request[r].pc = "done"
          => response[r].writableEnded /\ trace[r].failed

\* a request answered 413 after its fields, with a partially filled body
C15_Witness ==
  \E r \in Requests :
    /\ trace[r].fieldsLimit
    /\ request[r].bodyError = TooManyFields
    /\ DOMAIN request[r].body # {}
    /\ request[r].pc = "done"
    /\ response[r].writableEnded
    /\ response[r].statusCode = 413

\* C19 as stated: every GET request to /_health is answered 200 with an
\* empty body, and no handler is invoked.
C19_HealthAlwaysSucceeds ==
  \A r \in Requests :
    (/\ request[r].pc \notin {"new", "body", "uncaught"}
     /\ request[r].urlOk
     /\ request[r].method = "GET"
     /\ request[r].url = "/_health")
    => /\ response[r].statusCode = 200
       /\ response[r].body = ""
       /\ response[r].writableEnded
       /\ ~trace[r].everInvoked

\* C19 amended: a GET request to /_health whose context building and body
\* ingestion succeed is answered 200 with an empty body; one that fails there
\* (Cookie header, body) is answered 400 or 413 with the error by the catch;
\* in both cases no handler is invoked.
C19_HealthAfterContext ==
  \A r \in Requests :
    (/\ request[r].pc \notin {"new", "body", "uncaught"}
     /\ request[r].urlOk
     /\ request[r].method = "GET"
     /\ request[r].url = "/_health")
    => /\ request[r].pc = "done"
       /\ response[r].writableEnded
       /\ ~trace[r].everInvoked
       /\ request[r].liveConnection = None
       /\ IF trace[r].failed
          THEN /\ response[r].statusCode \in {400, 413}
               /\ response[r].body # ""
               /\ ~trace[r].endpoint
          ELSE /\ response[r].statusCode = 200
               /\ response[r].body = ""
               /\ trace[r].endpoint

\* the probe answered after a body was ingested, carrying a header for a
\* live connection
C19_Witness ==
  \E r \in Requests :
    /\ request[r].method = "GET"
    /\ request[r].url = "/_health"
    /\ request[r].contentType
    /\ request[r].liveConnectionHeader \in ClientIds
    /\ request[r].fields > 0
    /\ trace[r].endpoint
    /\ response[r].statusCode = 200
    /\ response[r].body = ""
    /\ response[r].writableEnded

\* C16: once the response of a request has closed and its body and files are
\* through (no listener having thrown), no directory created for a file of
\* that request exists.
C16_DirectoriesDeleted ==
  \A r \in Requests :
    (/\ response[r].closed
     /\ request[r].pc \notin {"body", "uncaught"}
     /\ ~request[r].parsing
     /\ \A k \in 1..Len(request[r].files) :
          request[r].files[k] \notin {"mkdir", "write"})
    => \A k \in 1..Len(request[r].files) : <<r, k>> \notin tmpdir

----------------------------------------------------------------------------
(* The administrative endpoint: plain and live GET requests, and POST
   /__live-connections from the loopback address and from another one *)

Patterns == {"/a"}

AdminInputs ==
  {in \in [method : Methods, url : {"/a", "/b", "/__live-connections"},
           ip : {Loopback, "203.0.113.7"},
           liveConnectionHeader : {None} \cup ClientIds,
           csrfProtection : {"true"}, contentType : BOOLEAN] :
     /\ (in.method = "POST") = (in.url = "/__live-connections")
     /\ (in.method = "POST") = in.contentType
     /\ in.method = "POST" => in.liveConnectionHeader = None
     /\ in.method = "GET" => in.ip = Loopback}

NextAdmin ==
  \/ \E r \in Requests, in \in AdminInputs : Arrive(r, in)
  \/ \E r \in Requests, value \in Patterns : Field(r, Pathname, value, FALSE)
  \/ \E r \in Requests : BodyDone(r)
  \/ \E r \in Requests : HandlerEnd(r, "text/html")
  \/ \E r \in Requests : HandlerReturn(r)
  \/ \E r \in Requests :
       (request[r].closeListener \/ request[r].adminListener) /\ Close(r)
  \/ \E r \in Requests : SweepStep(r)
  \/ \E t \in Requests : Timeout(t)

SpecAdmin == Init /\ [][NextAdmin]_vars

\* the pattern an administrative request gave
Pattern(r) == request[r].body[Pathname].items[1].value

\* the pathname of the current request of connection c
ConnectionPathname(c) == request[liveConnection[c].request].url

\* C20: only a POST /__live-connections from the loopback address sweeps the
\* registry; a step of its sweep changes only registered connections whose
\* pathname matches the pattern and the requests attached to them; and the
\* arrival of such a POST from another address changes no connection and no
\* other request.
C20_AdminUpdates ==
  /\ [](\A r \in Requests :
          (\/ request[r].adminListener
           \/ request[r].adminRunning
           \/ request[r].adminVisited # {})
          => /\ request[r].ip = Loopback
             /\ request[r].method = "POST"
             /\ request[r].url = "/__live-connections")
  /\ [][\A r \in Requests :
          request'[r].adminVisited # request[r].adminVisited
          => /\ \A c \in Requests :
                  liveConnection'[c] # liveConnection[c]
                  => /\ c \in Registered
                     /\ RegExpMatch(Pattern(r), ConnectionPathname(c))
             /\ \A q \in Requests \ {r} :
                  request'[q] # request[q]
                  => /\ request[q].liveConnection \in Registered
                     /\ RegExpMatch(Pattern(r),
                                    ConnectionPathname(request[q].liveConnection))]_vars
  /\ [][\A r \in Requests :
          (/\ request[r].pc \in {"new", "body"}
           /\ request'[r].pc \notin {"new", "body"}
           /\ request'[r].url = "/__live-connections"
           /\ request'[r].ip # Loopback)
          => /\ liveConnection' = liveConnection
             /\ liveConnections' = liveConnections
             /\ \A q \in Requests \ {r} : request'[q] = request[q]]_vars

\* a sweep with the pattern /a has visited a connection on /a, whose request
\* runs the pass the update started, and one on /b, which is as it was
C20_Witness ==
  \E r, c, d \in Requests :
    /\ {c, d} \subseteq request[r].adminVisited
    /\ Pattern(r) = "/a"
    /\ ConnectionPathname(c) = "/a"
    /\ request[liveConnection[c].request].pc = "handler"
    /\ ~liveConnection[c].establish
    /\ ~liveConnection[c].skipUpdateOnEstablish
    /\ ConnectionPathname(d) = "/b"
    /\ liveConnection[d].skipUpdateOnEstablish

----------------------------------------------------------------------------
(* Graceful termination: the signal may come at any moment, also while a
   request that was accepted before it still awaits its body *)

NextTermination ==
  \/ \E r \in 1..CloseRequests, in \in CloseInputs : Arrive(r, in)
  \/ \E r \in Requests : BodyDone(r)
  \/ \E r \in Requests : HandlerEnd(r, "text/html")
  \/ \E r \in Requests : HandlerReturn(r)
  \/ \E r \in Requests : Close(r)
  \/ \E t \in Requests : Timeout(t)
  \/ GracefulTermination

SpecTermination == Init /\ [][NextTermination]_vars

\* C12: once graceful termination has been triggered, no response that a
\* request (all of them accepted before the signal) attached to a live
\* connection stays open: it is really ended, or closed.
C12_NoLiveResponseStaysOpen ==
  gracefulTerminationEmitted
  => \A r \in Requests :
       response[r].liveConnectionEnd
       => response[r].writableEnded \/ response[r].closed

----------------------------------------------------------------------------
(* The request of the package's test: a route with a regular expression for
   its pathname, whose handler ends the response with what it got and then
   registers a function to run after.  c stands for conversations, n for
   name, l for leandro, s for session, a for abc, k for colorScheme, d for
   dark. *)

Conversations ==
  [method |-> "GET", pathname |-> RegExp, error |-> FALSE,
   pattern |-> [literal |-> <<"/", "c", "/">>, group |-> "conversationId",
                class |-> {"0", "1"}]]

ScenarioURLs ==
  {[url |-> "/c/10?n=l", pathname |-> <<"/", "c", "/", "1", "0">>,
    search |-> <<"n", "=", "l">>],
   [url |-> "/c/1?n=a&n=l", pathname |-> <<"/", "c", "/", "1">>,
    search |-> <<"n", "=", "a", "&", "n", "=", "l">>],
   [url |-> "/c/x", pathname |-> <<"/", "c", "/", "x">>, search |-> <<>>],
   [url |-> "/c/", pathname |-> <<"/", "c", "/">>, search |-> <<>>]}

ScenarioCookies ==
  {<<>>, <<"s", "=", "a", ";", " ", "k", "=", "d">>, <<"s", "=">>}

ScenarioInputs ==
  {[method |-> method, url |-> u.url,
    URL |-> [pathname |-> u.pathname, search |-> u.search],
    liveConnectionHeader |-> None, csrfProtection |-> "true", cookie |-> cookie] :
     method \in Methods, u \in ScenarioURLs, cookie \in ScenarioCookies}

InitScenario ==
  /\ InitObjects
  /\ routes \in {<<Conversations>>, <<Conversations, CatchAll>>,
                 <<CatchAll, Conversations>>}
  /\ csrfProtectionExceptionPathname = DefaultException

NextScenario ==
  \/ \E r \in 1..CloseRequests, in \in ScenarioInputs : Arrive(r, in)
  \/ \E r \in Requests : HandlerEnd(r, "application/json")
  \/ \E r \in Requests : HandlerPushAfter(r)
  \/ \E r \in Requests : HandlerReturn(r)

SpecScenario == InitScenario /\ [][NextScenario]_vars

\* C24: when the handlers of a request have run and one of them registered
\* a function in response.afters, that function has run exactly once.
C24_AftersRunOnce ==
  \A r \in Requests :
    (request[r].pc = "done" /\ trace[r].handlerEnded /\ trace[r].pushedAfter)
    => trace[r].aftersRun = 1

\* the handler of the regular-expression route is running for request r
AtConversations(r) ==
  /\ request[r].pc = "handler"
  /\ routes[request[r].route] = Conversations

\* C25: a GET request whose pathname matches the pattern of a route reaches
\* the handler of that route with the named capture as pathname parameter,
\* the query string as search parameters and the pairs of the Cookie header
\* as cookies, and what the handler ends the response with is the response.
C25_Dispatched ==
  \A r \in Requests :
    /\ (/\ request[r].pc \notin {"new", "done"}
        /\ request[r].method = "GET"
        /\ request[r].url = "/c/10?n=l"
        /\ request[r].cookie = <<"s", "=", "a", ";", " ", "k", "=", "d">>
        /\ routes[1] = Conversations)
       => /\ trace[r].invoked # <<>>
          /\ trace[r].invoked[1].route = 1
          /\ AtConversations(r)
             => request[r].pathname = [group \in {"conversationId"} |-> <<"1", "0">>]
          /\ request[r].search = [key \in {<<"n">>} |-> <<"l">>]
          /\ request[r].cookies =
               [key \in {<<"s">>, <<"k">>} |-> IF key = <<"s">> THEN <<"a">> ELSE <<"d">>]
    /\ (AtConversations(r) /\ request[r].method = "GET")
       => /\ Match(Conversations.pattern, request[r].URL.pathname)
          /\ request[r].pathname =
               [group \in {"conversationId"} |->
                  SubSeq(request[r].URL.pathname, 4, Len(request[r].URL.pathname))]
          /\ \A i \in 4..Len(request[r].URL.pathname) :
               request[r].URL.pathname[i] \in {"0", "1"}
    /\ (/\ trace[r].handlerEnded
        /\ request[r].method = "GET"
        /\ Len(trace[r].invoked) = 1
        /\ routes[trace[r].invoked[1].route] = Conversations)
       => /\ response[r].body = HandlerBody
          /\ response[r].statusCode = 200
          /\ response[r].contentType = "application/json"
          /\ request[r].pc = "done" => response[r].writableEnded

\* the request of the test was answered by the handler of the route
C25_Witness ==
  \E r \in Requests :
    /\ request[r].pc = "done"
    /\ request[r].url = "/c/10?n=l"
    /\ request[r].cookie = <<"s", "=", "a", ";", " ", "k", "=", "d">>
    /\ routes = <<Conversations>>
    /\ request[r].pathname = [group \in {"conversationId"} |-> <<"1", "0">>]
    /\ request[r].search = [key \in {<<"n">>} |-> <<"l">>]
    /\ request[r].cookies =
         [key \in {<<"s">>, <<"k">>} |-> IF key = <<"s">> THEN <<"a">> ELSE <<"d">>]
    /\ trace[r].handlerEnded
    /\ response[r].body = HandlerBody
    /\ response[r].writableEnded

----------------------------------------------------------------------------
(* The close of a superseded response *)

\* the response of request r closes in this step
Closes(r) == ~response[r].closed /\ response'[r].closed

\* request r negotiated a live connection of which it is not the current
\* request any more
Superseded(r) ==
  /\ request[r].closeListener
  /\ liveConnection[request[r].liveConnection].request # r

\* C28: the close of a response arms the abandonment timer of its live
\* connection only if its request is still the current request of the
\* connection; the close of a superseded response arms no timer, and no
\* pending timer was armed by a request that was superseded when its
\* response closed, so that close deletes nothing.
C28_SupersededCloseArmsNothing ==
  [][\A r \in Requests :
       Closes(r)
       => /\ Superseded(r)
             => /\ timeouts' = timeouts
                /\ liveConnections' = liveConnections
                /\ liveConnection'[request[r].liveConnection].deleteTimeout
                     = liveConnection[request[r].liveConnection].deleteTimeout
          /\ r \in timeouts' \ timeouts
             => /\ request[r].closeListener
                /\ liveConnection[request[r].liveConnection].request = r]_vars

\* the response of a superseded request has closed, and the timer of the
\* connection is not that request's
C28_Witness ==
  \E r \in Requests :
    /\ response[r].closed
    /\ Superseded(r)
    /\ liveConnection[request[r].liveConnection].deleteTimeout # r
    /\ r \notin timeouts
    /\ request[r].liveConnection \in {liveConnections[k] : k \in 1..Len(liveConnections)}

----------------------------------------------------------------------------
(* Passes of requests that share a live connection, over two routes *)

InitPasses ==
  /\ InitObjects
  /\ routes = <<CatchAll, CatchAll>>
  /\ csrfProtectionExceptionPathname = DefaultException

NextPasses ==
  \/ \E r \in 1..CloseRequests, in \in LiveInputs : Arrive(r, in)
  \/ \E r \in Requests : HandlerEnd(r, "text/html")
  \/ \E r \in Requests : HandlerReturn(r)
  \/ \E r \in Requests : request[r].closeListener /\ Close(r)
  \/ \E t \in Requests : Timeout(t)

SpecPasses == InitPasses /\ [][NextPasses]_vars

\* the pass of request r goes on to one more handler in this step
NextHandler(r) ==
  /\ Len(trace[r].invoked) >= 1
  /\ Len(trace'[r].invoked) = Len(trace[r].invoked) + 1

\* C29: within a pass no handler is invoked after the response has been
\* ended, which for a live connection means after a handler's end marked
\* the pass as ended.
C29_NoHandlerAfterEnd ==
  [][\A r \in Requests :
       NextHandler(r)
       => /\ ~trace[r].handlerEnded
          /\ request[r].liveConnection = None => ~response[r].writableEnded]_vars

----------------------------------------------------------------------------
(* The passes of an attached live connection: handlers that write state, end
   the response and throw, and the periodic updates *)

CatchAllError == [method |-> Wildcard, pathname |-> Wildcard, error |-> TRUE]

UpdateInputs ==
  [method : {"GET"}, url : {"/a"}, liveConnectionHeader : ClientIds]

InitUpdates ==
  /\ InitObjects
  /\ routes \in {<<CatchAll>>, <<CatchAll, CatchAllError>>, <<CatchAll, CatchAll>>}
  /\ csrfProtectionExceptionPathname = DefaultException

NextUpdates ==
  \/ \E r \in 1..DispatchRequests, in \in UpdateInputs : Arrive(r, in)
  \/ \E r \in Requests : HandlerState(r, "x")
  \/ \E r \in Requests : HandlerEnd(r, "text/html")
  \/ \E r \in Requests : HandlerReturn(r)
  \/ \E r \in Requests : HandlerThrow(r, "E1")
  \/ \E r \in Requests : PeriodicUpdates(r)
  \/ \E r \in Requests : request[r].closeListener /\ Close(r)

SpecUpdates == InitUpdates /\ [][NextUpdates]_vars

\* the step leaves request r at the first handler of a new pass, entered
\* with no state, no error and no update pending
Fresh(r) ==
  /\ request'[r].pc = "handler"
  /\ Len(trace'[r].invoked) = 1
  /\ trace'[r].invoked[1].error = NoError
  /\ trace'[r].invoked[1].state = {}
  /\ ~routes[trace'[r].invoked[1].route].error
  /\ request'[r].error = NoError
  /\ ~request'[r].update

\* the step leaves request r in the pass it was in
SamePass(r) ==
  /\ Len(trace'[r].invoked) >= Len(trace[r].invoked)
  /\ SubSeq(trace'[r].invoked, 1, Len(trace[r].invoked)) = trace[r].invoked

\* C30: a request that waits after a pass starts a pass only in the step of
\* an update signal, and then starts exactly one; a pass that ends goes on
\* to a new pass only if a signal came during it, and waits otherwise; and
\* every pass starts with the state empty and the error cleared, at a route
\* of the normal phase.
C30_OnePassPerUpdate ==
  [][\A r \in Requests :
       /\ request[r].pc = "awaitUpdate"
          => \/ request'[r].pc = "awaitUpdate" /\ trace'[r].invoked = trace[r].invoked
             \/ (\E q \in Requests : PeriodicUpdates(q)) /\ Fresh(r)
       /\ (request[r].pc = "handler" /\ request[r].liveConnection # None)
          => \/ /\ SamePass(r)
                /\ request'[r].pc \in {"handler", "awaitUpdate"}
                /\ request'[r].pc = "awaitUpdate" => ~request[r].update
             \/ request[r].update /\ Fresh(r)
       /\ request'[r].pc = "awaitUpdate" => ~request'[r].update]_vars

\* a handler threw in a pass, and the pass after it is at a route of the
\* normal phase without error and without state
C30_Witness ==
  \E r \in Requests :
    /\ request[r].liveConnection # None
    /\ trace[r].everThrown
    /\ routes = <<CatchAll, CatchAllError>>
    /\ request[r].pc = "handler"
    /\ ~trace[r].thrown
    /\ Len(trace[r].invoked) = 1
    /\ request[r].error = NoError
    /\ request[r].state = {}
    /\ response[r].headersSent

----------------------------------------------------------------------------
(* The end of a response that a live connection holds *)

\* C31: when a handler ends a response whose end was replaced for a live
\* connection and whose stream is open, the stream is not ended, the pass is
\* marked as ended on the connection, what is written is the payload as one
\* JSON string followed by one newline, and the heartbeat and the periodic
\* updates of the response go on.
C31_EndKeepsStreamOpen ==
  [][\A r \in Requests :
       (/\ HandlerEnd(r, "text/html")
        /\ response[r].liveConnectionEnd
        /\ ~response[r].writableEnded)
       => /\ ~response'[r].writableEnded
          /\ response'[r].headersSent
          /\ liveConnection'[request[r].liveConnection].writableEnded
          /\ response'[r].body = "\"" \o HandlerBody \o "\"\n"
          /\ response'[r].body # HandlerBody
          /\ Len(response'[r].body) = Len(HandlerBody) + 3
          /\ request'[r].pc = "handler"
          /\ request'[r].backgroundJobs = request[r].backgroundJobs
          /\ response'[r].closed = response[r].closed]_vars

\* a handler ended the response of an attached connection, whose stream is
\* open and carries the line, and a later pass of the same request began
C31_Witness ==
  \E r \in Requests :
    /\ request[r].liveConnection # None
    /\ liveConnection[request[r].liveConnection].request = r
    /\ response[r].liveConnectionEnd
    /\ trace[r].handlerEnded
    /\ liveConnection[request[r].liveConnection].writableEnded
    /\ ~response[r].writableEnded
    /\ ~response[r].closed
    /\ request[r].backgroundJobs
    /\ response[r].body = "\"" \o HandlerBody \o "\"\n"

----------------------------------------------------------------------------
(* The skipUpdateOnEstablish flag at the establishment *)

\* the step in which request r is established on the existing connection c
Establishes(r, c) ==
  /\ request[r].pc = "new"
  /\ trace'[r].replaced # None
  /\ request'[r].liveConnection = c

----------------------------------------------------------------------------
(* The candidate connections: requests of every method, with and without the
   Live-Connection header, to a route and to the liveness probe, whose
   handlers write, end with an HTML or a JSON content type, return and throw *)

CandidateInputs ==
  [method : Methods, url : {"/a", "/_health"},
   liveConnectionHeader : {None, MalformedId} \cup ClientIds,
   csrfProtection : {"absent", "true"}]

NextCandidate ==
  \/ \E r \in 1..CloseRequests, in \in CandidateInputs : Arrive(r, in)
  \/ \E r \in Requests : HandlerWrite(r)
  \/ \E r \in Requests, type \in {"text/html", "application/json"} :
       HandlerEnd(r, type)
  \/ \E r \in Requests : HandlerReturn(r)
  \/ \E r \in Requests : HandlerThrow(r, "E1")
  \/ \E r \in Requests : Close(r)
  \/ \E t \in Requests : Timeout(t)

SpecCandidate == Init /\ [][NextCandidate]_vars

\* the step in which the listener of request r comes to its end
Finishes(r) == request[r].pc # "done" /\ request'[r].pc = "done"

\* the response of request r is a successful HTML answer to a GET
SuccessfulHTML(r) ==
  /\ request[r].method = "GET"
  /\ response[r].statusCode = 200
  /\ response[r].contentType = "text/html"

\* C33: the step that finishes a GET request without a Live-Connection
\* header with status 200 and an HTML content type appends one connection to
\* the registry: it holds that request (so is found under that request's own
\* id), its response is ended, its skipUpdateOnEstablish is set and its
\* timer is armed.  The step that finishes any other request, or a request
\* served by a pre-router endpoint, changes neither the registry nor the
\* timers.
C33_CandidateRegistration ==
  [][\A r \in Requests :
       Finishes(r)
       => IF /\ SuccessfulHTML(r)'
             /\ request'[r].liveConnectionHeader = None
             /\ ~trace'[r].endpoint
          THEN /\ liveConnections' = Append(liveConnections, r)
               /\ liveConnection'[r].request = r
               /\ request'[r].id = randomString(r)
               /\ response'[r].writableEnded
               /\ liveConnection'[r].skipUpdateOnEstablish
               /\ liveConnection'[r].deleteTimeout = r
               /\ timeouts' = timeouts \cup {r}
               /\ r \notin timeouts
          ELSE /\ liveConnections' = liveConnections
               /\ liveConnection' = liveConnection
               /\ timeouts' = timeouts]_vars

\* a candidate was registered, and requests finished without one: with
\* status 200 and another content type, with another status, at the probe
C33_Witness ==
  \E r, q \in Requests :
    /\ request[r].pc = "done"
    /\ SuccessfulHTML(r)
    /\ request[r].liveConnectionHeader = None
    /\ liveConnections = <<r>>
    /\ r \in timeouts
    /\ request[q].pc = "done"
    /\ q # r
    /\ request[q].method = "GET"
    /\ response[q].statusCode = 200
    /\ response[q].contentType = "application/json"

----------------------------------------------------------------------------
(* The Live-Connection header that is not acceptable *)

\* the step in which the listener of request r gets past the request body
Answered(r) ==
  /\ request[r].pc \in {"new", "body"}
  /\ request'[r].pc \notin {"new", "body"}

\* request r carries a Live-Connection header on a method other than GET,
\* or one whose value does not match /^[a-z0-9]{5,}$/
InvalidHeader(r) ==
  /\ request[r].liveConnectionHeader # None
  /\ request[r].method # "GET" \/ request[r].liveConnectionHeader = MalformedId

\* C34 as stated: every request with such a header is answered 400, without
\* a handler and without a change of the registry.
C34_InvalidHeaderIs400 ==
  [][\A r \in Requests :
       (Answered(r) /\ InvalidHeader(r)')
       => /\ response'[r].statusCode = 400
          /\ ~trace'[r].everInvoked
          /\ liveConnections' = liveConnections]_vars

\* C34 amended: a request with such a header invokes no handler and leaves
\* the registry, the connections and the timers as they are; it is answered
\* 400 with the message of the Live-Connection header when context building
\* has not failed before (then the answer of that failure stays, 403 for a
\* POST without the CSRF header) and no pre-router endpoint has served it
\* (the liveness probe answers 200 whatever the header).
C34_InvalidHeaderAfterContext ==
  [][\A r \in Requests :
       (Answered(r) /\ InvalidHeader(r)')
       => /\ ~trace'[r].everInvoked
          /\ request'[r].pc = "done"
          /\ response'[r].writableEnded
          /\ liveConnections' = liveConnections
          /\ liveConnection' = liveConnection
          /\ timeouts' = timeouts
          /\ IF trace'[r].failed \/ trace'[r].endpoint
             THEN response'[r].body # LiveConnectionMessage
             ELSE /\ response'[r].statusCode = 400
                  /\ response'[r].contentType = "text/plain"
                  /\ response'[r].body = LiveConnectionMessage]_vars

\* a POST with a well-formed id and a GET with a malformed id were both
\* answered 400 with the message, without a handler, and neither is registered
C34_Witness ==
  \E r, q \in Requests :
    /\ request[r].pc = "done" /\ request[q].pc = "done"
    /\ request[r].method = "POST" /\ request[r].liveConnectionHeader \in ClientIds
    /\ request[q].method = "GET" /\ request[q].liveConnectionHeader = MalformedId
    /\ \A p \in {r, q} :
         /\ response[p].statusCode = 400
         /\ response[p].body = LiveConnectionMessage
         /\ ~trace[p].everInvoked
         /\ p \notin Registered

----------------------------------------------------------------------------
(* Uploaded files: the writes and the truncation *)

\* the files of request r in one of the given states
FilesIn(r, states) ==
  {k \in 1..Len(request[r].files) : request[r].files[k] \in states}

----------------------------------------------------------------------------
(* The frame of a rejection for an unmatched href *)

\* C36: the step that rejects request r because its href differs from the
\* href of the connection registered under its id changes no connection (its
\* current request, its flags, its update and its timer), no timer, not the
\* registry, and no other request or response; the rejected request is
\* answered 400, ended, and has no listener and no background job that
\* could act on the connection later.
C36_RejectionLeavesConnection ==
  [][\A r \in Requests :
       (~trace[r].rejected /\ trace'[r].rejected)
       => /\ liveConnection' = liveConnection
          /\ liveConnections' = liveConnections
          /\ timeouts' = timeouts
          /\ \A q \in Requests \ {r} :
               /\ request'[q] = request[q]
               /\ response'[q] = response[q]
          /\ response'[r].statusCode = 400
          /\ response'[r].writableEnded
          /\ request'[r].pc = "done"
          /\ ~request'[r].closeListener
          /\ ~request'[r].backgroundJobs
          /\ ~response'[r].liveConnectionEnd]_vars

\* two requests were rejected for their href by one connection, whose
\* current response is attached and open and which has no timer
C36_Witness ==
  \E r, q \in Requests :
    /\ trace[r].rejected /\ trace[q].rejected /\ r # q
    /\ request[r].liveConnection = request[q].liveConnection
    /\ LET c == liveConnection[request[r].liveConnection]
       IN  /\ c.request \notin {r, q}
           /\ ~response[c.request].writableEnded
           /\ request[c.request].liveConnection # None
           /\ c.deleteTimeout = None

----------------------------------------------------------------------------
(* Update signals and reattachments: requests that share an id, handlers
   that end and return, the periodic updates and the close of the responses *)

NextReattach ==
  \/ \E r \in 1..CloseRequests, in \in UpdateInputs : Arrive(r, in)
  \/ \E r \in Requests : HandlerEnd(r, "text/html")
  \/ \E r \in Requests : HandlerReturn(r)
  \/ \E r \in Requests : PeriodicUpdates(r)
  \/ \E r \in Requests : request[r].closeListener /\ Close(r)

SpecReattach == Init /\ [][NextReattach]_vars

\* the step starts a pass of request r after its first one: out of the wait,
\* or at the end of a pass during which its promise was resolved
StartsPass(r) ==
  \/ request[r].pc = "awaitUpdate" /\ request'[r].pc = "handler"
  \/ request[r].pc = "handler" /\ request[r].update /\ ~request'[r].update

\* the current request of the connection of request q
Current(q) == liveConnection[request[q].liveConnection].request

\* C37: an update signal fired for a connection while the pass of its
\* current request is in progress is recorded for that request; a request
\* with a recorded signal does not go to the wait: its pass goes on with the
\* signal recorded, or one new pass starts, which begins with no signal
\* recorded however many were fired.
C37_SignalNotLost ==
  [][/\ \A q \in Requests :
          (PeriodicUpdates(q) /\ request[Current(q)].pc = "handler")
          => request'[Current(q)].update
     /\ \A r \in Requests :
          (/\ request[r].pc = "handler"
           /\ request[r].liveConnection # None
           /\ request[r].update)
          => \/ request'[r].pc = "handler" /\ request'[r].update
             \/ request'[r].pc = "handler" /\ StartsPass(r)]_vars

\* C38: a request that has been superseded on its live connection starts no
\* further dispatch pass, and an update signal is delivered to no request
\* but the current one.
C38_SupersededStartsNoPass ==
  [][\A r \in Requests :
       Superseded(r)
       => /\ ~StartsPass(r)
          /\ request'[r].update = request[r].update]_vars

----------------------------------------------------------------------------
(* Attached connections and the abandonment timer *)

\* the current response of connection c was attached by the negotiation of
\* its request and its stream is open: neither ended nor closed
AttachedOpen(c) ==
  LET current == liveConnection[c].request
  IN  /\ current # None
      /\ request[current].liveConnection = c
      /\ response[current].liveConnectionEnd
      /\ ~response[current].writableEnded
      /\ ~response[current].closed

\* C39: a connection whose current response is attached and open is in the
\* registry and no pending timer would delete it (so no step removes a
\* connection from the registry unless it is detached).
C39_AttachedHasNoTimer ==
  \A c \in Requests :
    AttachedOpen(c)
    => /\ c \in Registered
       /\ \A t \in timeouts : TimeoutTarget(Heap, t) # c
       /\ liveConnection[c].deleteTimeout \notin timeouts

\* a connection was detached with its timer armed, a request reattached to
\* it, and another connection was deleted by its timer meanwhile
C39_Witness ==
  \E c \in Requests :
    /\ AttachedOpen(c)
    /\ liveConnection[c].request # c
    /\ liveConnection[c].deleteTimeout # None
    /\ \E q \in Requests \ {c} :
         /\ liveConnection[q].request # None
         /\ q \notin Registered

----------------------------------------------------------------------------
(* A handler of the error phase that throws *)

\* the matching error routes registered after the route request r is at
LaterErrorRoutes(r) ==
  {j \in (request[r].route + 1)..Len(routes) : routes[j].error /\ Matches(r, j)}

\* the step invokes route j as the next handler of the pass of request r,
\* with error e recorded
GoesOnAt(r, j, e) ==
  /\ request'[r].pc = "handler"
  /\ request'[r].route = j
  /\ request'[r].error = e
  /\ trace'[r].invoked =
       Append(trace[r].invoked,
              [route |-> j, thrown |-> TRUE, error |-> e, state |-> request[r].state])

\* the step ends the pass of request r: it stops, waits for an update, or
\* starts the next pass because an update is pending
PassEnds(r) ==
  \/ request'[r].pc \in {"done", "awaitUpdate"}
  \/ /\ request[r].update
     /\ request'[r].pc = "handler"
     /\ Len(trace'[r].invoked) = 1
     /\ trace'[r].invoked[1].error = NoError

----------------------------------------------------------------------------
(* Writes and ends after the end *)

\* C22: no write is made to the response of a live connection after that
\* response has really been ended (by a reattachment or by graceful
\* termination): not by the handlers of the superseded request, not by its
\* heartbeat, not by the fallback.
C22_NoWriteAfterEnd ==
  \A r \in Requests :
    response[r].liveConnectionEnd => ~trace[r].writeAfterEnd

\* C23: once a handler has ended the response in a pass, a further call to
\* end in the same pass emits no output, also for a live connection.
C23_EndOnce ==
  \A r \in Requests : ~trace[r].outputAfterEnded

----------------------------------------------------------------------------
(* Termination signals, one after another *)

NextSignals ==
  \/ \E r \in 1..CloseRequests, in \in CloseInputs : Arrive(r, in)
  \/ \E r \in Requests : BodyDone(r)
  \/ \E r \in Requests : HandlerEnd(r, "text/html")
  \/ \E r \in Requests : HandlerReturn(r)
  \/ \E r \in Requests : Close(r)
  \/ \E t \in Requests : Timeout(t)
  \/ Signal

SpecSignals == Init /\ [][NextSignals]_vars

\* C21: whatever the number of signals, the gracefulTermination event is
\* emitted at most once and the server's shutdown runs at most once; a signal
\* after the first changes nothing but the count of signals.
C21_ShutdownOnce ==
  /\ process.emitted <= 1
  /\ process.closes <= 1
  /\ process.emitted = (IF process.signals > 0 THEN 1 ELSE 0)
  /\ process.closes = process.emitted

\* a second and a third signal came after the first
C21_Witness ==
  /\ process.signals = MaxSignals
  /\ process.emitted = 1
  /\ process.closes = 1
  /\ \E r \in Requests : response[r].liveConnectionEnd /\ response[r].writableEnded

----------------------------------------------------------------------------
(* Cookies set by a handler and sent back by the client *)

\* the strings of at most MaxLen characters
Strings == UNION {[1..n -> Chars] : n \in 0..MaxLen}

\* the name=value pairs the responses have set so far
SentCookies ==
  UNION {{response[q].setCookie[i] : i \in DOMAIN response[q].setCookie} :
           q \in Requests}

\* Cookie headers: none, one without a value, one with a blank pair, and the
\* pairs the server has set
CookieInputs ==
  [method : {"GET"}, url : {"/a"}, liveConnectionHeader : {None},
   cookie : {<<>>, <<"a">>, <<"a", "=", "a", ";", " ">>} \cup SentCookies]

InitCookie ==
  /\ InitObjects
  /\ routes = <<CatchAll>>
  /\ csrfProtectionExceptionPathname = DefaultException

NextCookie ==
  \/ \E r \in 1..CookieRequests, in \in CookieInputs : Arrive(r, in)
  \/ /\ Cardinality({q \in Requests : response[q].setCookie # <<>>}) < MaxCookies
     /\ \E r \in Requests, key \in Strings, value \in Strings :
          HandlerSetCookie(r, key, value)
  \/ \E r \in Requests : HandlerEnd(r, "text/html")
  \/ \E r \in Requests : HandlerReturn(r)

SpecCookie == InitCookie /\ [][NextCookie]_vars

\* C17: when a handler has called setCookie(key, value) with a value that is
\* not empty, a request that sends the resulting name=value pair back as its
\* Cookie header is parsed without an error and its cookies hold value under
\* key.
C17_CookieRoundTrip ==
  \A r \in Requests, q \in Requests :
    ( /\ trace[r].setCookie # <<>>
      /\ trace[r].setCookie[2] # <<>>
      /\ request[q].pc # "new"
      /\ request[q].cookie = response[r].setCookie[1] )
    => /\ request[q].cookieOk
       /\ trace[r].setCookie[1] \in DOMAIN request[q].cookies
       /\ request[q].cookies[trace[r].setCookie[1]] = trace[r].setCookie[2]

\* a key that begins with the prefix and has a reserved character, and a value
\* of reserved characters, have come back in a Cookie header
C17_Witness ==
  \E r \in Requests, q \in Requests :
    /\ trace[r].setCookie = << <<HostPrefix, "=">>, <<";", " ">> >>
    /\ request[q].pc = "handler"
    /\ request[q].cookie = response[r].setCookie[1]
    /\ request[q].cookies = [key \in {<<HostPrefix, "=">>} |-> <<";", " ">>]

----------------------------------------------------------------------------
(* Calls of migrate(), one after another, with a list of migrations that
   grows by appending; a migration may succeed in one call after it failed
   in another *)

NextMigrate ==
  \/ \E migrations \in Extensions(database.known) : Migrate(migrations)
  \/ \E outcome \in Outcomes : MigrationQuery(outcome)
  \/ MigrationFunction
  \/ \E outcome \in Outcomes : MigrationSettled(outcome)
  \/ \E value \in BOOLEAN : ForeignKeys(value)

SpecMigrate == Init /\ [][NextMigrate]_vars

\* C26: across the calls of migrate() no migration has run successfully more
\* than once.
C26_AtMostOnce ==
  \A i \in 1..MaxMigrations : database.runs[i] <= 1

\* a second call went over a list that a first call had migrated, and ran
\* only what was appended
C26_Witness ==
  /\ database.calls >= 2
  /\ database.pc = "idle"
  /\ ~database.error
  /\ Len(database.migrations) = MaxMigrations
  /\ \A i \in 1..MaxMigrations : database.runs[i] = 1
  /\ \E i \in 1..MaxMigrations : database.failed[i] = 1
  /\ ~database.foreign_keys

\* C27: outside a migration's transaction user_version is the number of
\* migrations that have run successfully, which are the first ones of the
\* list and the ones whose statements the database holds; a migration that
\* fails leaves neither its statements nor a new user_version, its call
\* stops with the error, and a migration is started only when every
\* migration before it has succeeded.
C27_VersionCountsSuccesses ==
  LET succeeded == {i \in 1..MaxMigrations : database.runs[i] >= 1}
  IN  /\ database.transaction = NoTransaction
         => /\ database.user_version = Cardinality(succeeded)
            /\ succeeded = 1..database.user_version
            /\ database.schema = succeeded
      /\ database.pc = "idle" /\ database.calls > 0
         => /\ database.transaction = NoTransaction
            /\ database.error <=> database.user_version < Len(database.migrations)
      /\ \A i \in database.started : \A j \in 1..(i - 1) : j \in succeeded

\* a migration failed in one call, after the one before it had succeeded,
\* and the call stopped there
C27_Witness ==
  /\ database.pc = "idle"
  /\ database.error
  /\ database.user_version = 1
  /\ database.failed[2] = 1
  /\ database.runs[2] = 0
  /\ Len(database.migrations) = 3
  /\ 3 \notin database.started

============================================================================
